---- MODULE Spec2Model ----
(***************************************************************************)
(* A model of canvas_course_builder.py: CourseBuilder.build and the        *)
(* services it drives (ContentComparator, LinkResolver, the CanvasAPI      *)
(* client), run against a small model of the remote course.                *)
(*                                                                         *)
(* Python None and the falsy identity 0 are both written 0: the code tests *)
(* identities by truth value ("if item.canvas_page_id:").                  *)
(***************************************************************************)
EXTENDS Integers, Sequences, FiniteSets, TLC

VARIABLES
    modules,        \* the local tree: list[Module], mutated in place by build
    dry_run,        \* build's dry_run argument
    pc,             \* where build is
    pos,            \* the loop position of Phase 1 / Phase 3: [m, k]
    files_cache,    \* CourseBuilder.files_cache
    canvas_data_cache, \* CourseBuilder.canvas_data_cache
    resolver,       \* LinkResolver's four tables
    items_needing_link_resolution, \* CourseBuilder.items_needing_link_resolution
    preview,        \* what _preview printed: one decision per entity
    server,         \* the remote course
    calls,          \* every remote call issued, in order
    run             \* 1: the first build; 2: the build run again

vars == <<modules, dry_run, pc, pos, files_cache, canvas_data_cache, resolver,
          items_needing_link_resolution, preview, server, calls, run>>

-----------------------------------------------------------------------------
(* Bounds of the model *)

\* modules in a tree
MaxModules == 2
\* items in a tree, over all its modules
MaxItems == 2
\* remote reads of one Phase 0 that may fail
MaxFetchFailures == 1

-----------------------------------------------------------------------------
(* Small helpers *)

Put(f, k, v) == [x \in DOMAIN f \cup {k} |-> IF x = k THEN v ELSE f[x]]

Has(f, k) == k \in DOMAIN f

EmptyMap == [x \in {} |-> 0]

RECURSIVE SumSeq(_)
SumSeq(s) == IF s = <<>> THEN 0 ELSE Head(s) + SumSeq(Tail(s))

\* str.lower() on the titles and names of the model
Lower(s) ==
    CASE s = "Intro" -> "intro"
      [] s = "INTRO" -> "intro"
      [] s \in {"Bold", "BOLD"} -> "bold"
      [] s = "TEXT" -> "text"
      [] s = "Notes" -> "notes"
      [] s = "F.pdf" -> "f.pdf"
      [] OTHER -> s

-----------------------------------------------------------------------------
(* Content bodies: a body is a sequence of tokens. A token is a word of    *)
(* text, a placeholder [[Kind:Title]], or a rendered link <a href>.        *)

NoUrl == [kind |-> "", tail |-> 0]

Text(s) == [t |-> "text", kind |-> "", title |-> s, url |-> NoUrl, class |-> ""]

Ref(kind, title) == [t |-> "ref", kind |-> kind, title |-> title, url |-> NoUrl, class |-> ""]

Anchor(url, text, class) == [t |-> "a", kind |-> "", title |-> text, url |-> url, class |-> class]

\* LinkResolver.LINK_PATTERN matches these kinds only
LinkKinds == {"Page", "Assignment", "Discussion", "File"}

IsPlaceholder(tok) == tok.t = "ref" /\ tok.kind \in LinkKinds

has_internal_links(content) == \E i \in 1..Len(content) : IsPlaceholder(content[i])

\* '[[File:' in content
HasFileLink(content) ==
    \E i \in 1..Len(content) : content[i].t = "ref" /\ content[i].kind = "File"

\* An HTML tag, as the HTML parser sees it
Tag(name) == [t |-> "tag", kind |-> "", title |-> name, url |-> NoUrl, class |-> ""]

\* A piece of text that is the given symbol: a word, a mark of the
\* lightweight markup, a blank or a line break
IsSym(tok, sym) == tok.t = "text" /\ tok.title = sym

\* \s of the regular expressions
IsSpace(tok) == tok.t = "text" /\ tok.title \in {" ", "  ", "\n"}

\* The symbols the patterns of markdown_to_html_basic start with
MarkSymbols == {"#", "##", "###", "####", "-", "*", "_", "["}

\* The place of the first token of text from place i on that is the symbol,
\* or one past the end
RECURSIVE FirstSym(_, _, _)
FirstSym(text, sym, i) ==
    IF i > Len(text) \/ IsSym(text[i], sym) THEN i ELSE FirstSym(text, sym, i + 1)

\* The place of the first token from place i on that is not a blank
RECURSIVE FirstInk(_, _)
FirstInk(text, i) ==
    IF i > Len(text) \/ ~IsSpace(text[i]) THEN i ELSE FirstInk(text, i + 1)

\* re.sub(r'^MARK\s+(.+)$', r'<tag>\1</tag>') on one line
SubLine(line, mark, tag, end) ==
    IF Len(line) >= 3 /\ IsSym(line[1], mark) /\ IsSpace(line[2])
    THEN LET k == IF FirstInk(line, 2) > Len(line) THEN Len(line) ELSE FirstInk(line, 2)
         IN  <<Tag(tag)>> \o SubSeq(line, k, Len(line)) \o <<Tag(end)>>
    ELSE line

\* The same with flags=re.MULTILINE, line by line
RECURSIVE SubLines(_, _, _, _)
SubLines(text, mark, tag, end) ==
    IF text = <<>> THEN <<>>
    ELSE LET n == FirstSym(text, "\n", 1) IN
         SubLine(SubSeq(text, 1, n - 1), mark, tag, end)
         \o (IF n > Len(text) THEN <<>>
             ELSE <<text[n]>> \o SubLines(SubSeq(text, n + 1, Len(text)), mark, tag, end))

\* re.sub(r'\[([^\]]+)\]\(([^\)]+)\)', r'<a href="\2">\1</a>')
RECURSIVE SubLinks(_)
SubLinks(text) ==
    IF text = <<>> THEN <<>>
    ELSE LET j == FirstSym(text, "]", 2)
             m == FirstSym(text, ")", j + 2)
         IN  IF /\ IsSym(text[1], "[")
                /\ j >= 3
                /\ j + 1 <= Len(text)
                /\ IsSym(text[j + 1], "(")
                /\ m >= j + 3
                /\ m <= Len(text)
             THEN <<Tag("a")>> \o SubSeq(text, 2, j - 1) \o <<Tag("/a")>>
                  \o SubLinks(SubSeq(text, m + 1, Len(text)))
             ELSE <<text[1]>> \o SubLinks(Tail(text))

\* re.sub(r'\*\*([^\*]+)\*\*', r'<strong>\1</strong>')
RECURSIVE SubBold(_)
SubBold(text) ==
    IF text = <<>> THEN <<>>
    ELSE LET j == FirstSym(text, "*", 3) IN
         IF /\ Len(text) >= 5
            /\ IsSym(text[1], "*")
            /\ IsSym(text[2], "*")
            /\ j >= 4
            /\ j + 1 <= Len(text)
            /\ IsSym(text[j + 1], "*")
         THEN <<Tag("strong")>> \o SubSeq(text, 3, j - 1) \o <<Tag("/strong")>>
              \o SubBold(SubSeq(text, j + 2, Len(text)))
         ELSE <<text[1]>> \o SubBold(Tail(text))

\* re.sub(r'\*([^\*]+)\*', r'<em>\1</em>')
RECURSIVE SubItalic(_)
SubItalic(text) ==
    IF text = <<>> THEN <<>>
    ELSE LET j == FirstSym(text, "*", 2) IN
         IF IsSym(text[1], "*") /\ j >= 3 /\ j <= Len(text)
         THEN <<Tag("em")>> \o SubSeq(text, 2, j - 1) \o <<Tag("/em")>>
              \o SubItalic(SubSeq(text, j + 1, Len(text)))
         ELSE <<text[1]>> \o SubItalic(Tail(text))

\* re.sub(r'(?<!\*)_([^_]+)_(?!\*)', r'<em>\1</em>'); starred says whether an
\* asterisk stands before the text
RECURSIVE SubUnderscore(_, _)
SubUnderscore(text, starred) ==
    IF text = <<>> THEN <<>>
    ELSE LET j == FirstSym(text, "_", 2) IN
         IF /\ ~starred
            /\ IsSym(text[1], "_")
            /\ j >= 3
            /\ j <= Len(text)
            /\ j = Len(text) \/ ~IsSym(text[j + 1], "*")
         THEN <<Tag("em")>> \o SubSeq(text, 2, j - 1) \o <<Tag("/em")>>
              \o SubUnderscore(SubSeq(text, j + 1, Len(text)), FALSE)
         ELSE <<text[1]>> \o SubUnderscore(Tail(text), IsSym(text[1], "*"))

\* A variant that knows italics written with asterisks only
markdown_to_html_no_underscore(text) ==
    SubItalic(SubBold(SubLinks(
        SubLines(SubLines(SubLines(SubLines(SubLines(SubLines(text,
            "####", "h4", "/h4"), "###", "h3", "/h3"), "##", "h2", "/h2"),
            "#", "h1", "/h1"), "-", "li", "/li"), "*", "li", "/li"))))

\* markdown_to_html_basic: the substitutions in the order of the code; a text
\* without any of the marks is left as it is
markdown_to_html_basic(text) ==
    IF \A i \in 1..Len(text) : ~(text[i].t = "text" /\ text[i].title \in MarkSymbols)
    THEN text
    ELSE SubUnderscore(SubItalic(SubBold(SubLinks(
             SubLines(SubLines(SubLines(SubLines(SubLines(SubLines(text,
                 "####", "h4", "/h4"), "###", "h3", "/h3"), "##", "h2", "/h2"),
                 "#", "h1", "/h1"), "-", "li", "/li"), "*", "li", "/li")))), FALSE)

\* HTMLTextExtractor: the pieces of text between the tags, blank ones dropped
HTMLTextExtractor(html) == SelectSeq(html, LAMBDA tok : tok.t # "tag" /\ ~IsSpace(tok))

\* One piece of visible text, lowercased. A placeholder is plain text to the
\* normalizer; of a link only its text shows.
NormToken(tok) ==
    IF tok.t = "ref" THEN <<"[[", tok.kind, Lower(tok.title)>>
    ELSE <<"", "", Lower(tok.title)>>

\* normalize_html: markup converted, tags stripped, whitespace collapsed (the
\* pieces of text stand one blank apart), lowercased
normalize_html(content) ==
    LET visible == HTMLTextExtractor(markdown_to_html_basic(content))
    IN  [i \in 1..Len(visible) |-> NormToken(visible[i])]

-----------------------------------------------------------------------------
(* Data models: the dataclasses, as records with every field present *)

Kinds == {"header", "page", "link", "file", "assignment", "discussion"}

ContentKinds == {"page", "assignment", "discussion"}

\* GradeDisplay.to_canvas
to_canvas(grade_display) ==
    CASE grade_display = "complete_incomplete" -> "pass_fail"
      [] grade_display = "points" -> "points"
      [] grade_display = "not_graded" -> "not_graded"

\* A timestamp as text: the instant and the form it is written in
\* ("naive": no zone, "offset": with the local offset, "utc": ...Z).
NoDue == [inst |-> 0, form |-> "none"]

\* datetime.isoformat() of the parser's naive datetime; None stays None
IsoNaive(due_at) == IF due_at = 0 THEN NoDue ELSE [inst |-> due_at, form |-> "naive"]

\* due_at.replace(tzinfo=local_tz).isoformat()
IsoLocal(due_at) == IF due_at = 0 THEN NoDue ELSE [inst |-> due_at, form |-> "offset"]

\* The dataclass defaults
BlankItem ==
    [kind |-> "header", title |-> "", content |-> <<>>, description |-> <<>>,
     message |-> <<>>, url |-> "", filename |-> "",
     points |-> 0, due_at |-> 0, grade_display |-> "complete_incomplete",
     submission_types |-> <<"online_text_entry">>,
     require_initial_post |-> FALSE, threaded |-> TRUE, graded |-> FALSE,
     canvas_id |-> 0, canvas_url |-> NoUrl,
     canvas_page_id |-> 0, canvas_assignment_id |-> 0, canvas_discussion_id |-> 0,
     canvas_file_id |-> 0, canvas_module_item_id |-> 0]

TextHeader(title, miid) ==
    [BlankItem EXCEPT !.kind = "header", !.title = title, !.canvas_module_item_id = miid]

Page(title, content, page_id, miid) ==
    [BlankItem EXCEPT !.kind = "page", !.title = title, !.content = content,
                      !.canvas_page_id = page_id, !.canvas_module_item_id = miid]

ExternalLink(title, url, miid) ==
    [BlankItem EXCEPT !.kind = "link", !.title = title, !.url = url,
                      !.canvas_module_item_id = miid]

File(title, filename, file_id, miid) ==
    [BlankItem EXCEPT !.kind = "file", !.title = title, !.filename = filename,
                      !.canvas_file_id = file_id, !.canvas_module_item_id = miid]

Assignment(title, description, assignment_id, miid) ==
    [BlankItem EXCEPT !.kind = "assignment", !.title = title, !.description = description,
                      !.canvas_assignment_id = assignment_id,
                      !.canvas_module_item_id = miid]

Discussion(title, message, discussion_id, miid) ==
    [BlankItem EXCEPT !.kind = "discussion", !.title = title, !.message = message,
                      !.canvas_discussion_id = discussion_id,
                      !.canvas_module_item_id = miid]

Module(title, items, module_id) ==
    [title |-> title, items |-> items, canvas_id |-> 0, canvas_module_id |-> module_id]

\* The body of an item that has one: page content, assignment description,
\* discussion message
BodyOf(item) ==
    CASE item.kind = "page" -> item.content
      [] item.kind = "assignment" -> item.description
      [] item.kind = "discussion" -> item.message
      [] OTHER -> <<>>

\* The declared content identity _create_or_update_item tests for the kind
ContentIdOf(item) ==
    CASE item.kind = "page" -> item.canvas_page_id
      [] item.kind = "assignment" -> item.canvas_assignment_id
      [] item.kind = "discussion" -> item.canvas_discussion_id
      [] OTHER -> 0

\* The table of canvas_data_cache that holds the kind's snapshots
TableOf(kind) ==
    CASE kind = "page" -> "pages"
      [] kind = "assignment" -> "assignments"
      [] kind = "discussion" -> "discussions"
      [] kind = "module" -> "modules"
      [] OTHER -> "module_items"

-----------------------------------------------------------------------------
(* ContentComparator: each compare_* returns changed_fields; has_changes   *)
(* is bool(changed).                                                       *)

When(cond, name) == IF cond THEN <<name>> ELSE <<>>

compare_module(local, canvas_data) ==
    When(local.title # canvas_data.name, "title")

compare_text_header(local, canvas_data) ==
    When(local.title # canvas_data.title, "title")

compare_external_link(local, canvas_data) ==
    When(local.title # canvas_data.title, "title")
    \o When(local.url # canvas_data.external_url, "url")

compare_page(local, canvas_data) ==
    When(local.title # canvas_data.title, "title")
    \o When(normalize_html(local.content) # normalize_html(canvas_data.body), "content")

compare_assignment(local, canvas_data) ==
    When(local.title # canvas_data.name, "title")
    \o When(normalize_html(local.description) # normalize_html(canvas_data.description),
            "description")
    \o When(local.points # canvas_data.points_possible, "points")
    \o When(IsoNaive(local.due_at) # canvas_data.due_at, "due_date")
    \o When(to_canvas(local.grade_display) # canvas_data.grading_type, "grading_type")
    \o When({local.submission_types[i] : i \in 1..Len(local.submission_types)}
              # canvas_data.submission_types, "submission_types")

discussion_type(item) == IF item.threaded THEN "threaded" ELSE "side_comment"

\* A variant that compares the grading fields whenever both sides have them
\* and takes the graded flag itself for no change
compare_discussion_same_flag(local, canvas_data) ==
    When(local.title # canvas_data.title, "title")
    \o When(normalize_html(local.message) # normalize_html(canvas_data.message), "message")
    \o When(local.require_initial_post # canvas_data.require_initial_post,
            "require_initial_post")
    \o When(discussion_type(local) # canvas_data.discussion_type, "discussion_type")
    \o (IF canvas_data.assignment.present
        THEN When(local.points # canvas_data.assignment.points_possible, "points")
             \o When(to_canvas(local.grade_display) # canvas_data.assignment.grading_type,
                     "grading_type")
        ELSE <<>>)

compare_discussion(local, canvas_data) ==
    When(local.title # canvas_data.title, "title")
    \o When(normalize_html(local.message) # normalize_html(canvas_data.message), "message")
    \o When(local.require_initial_post # canvas_data.require_initial_post,
            "require_initial_post")
    \o When(discussion_type(local) # canvas_data.discussion_type, "discussion_type")
    \o (IF local.graded
        THEN IF ~canvas_data.assignment.present
             THEN <<"graded_status">>
             ELSE When(local.points # canvas_data.assignment.points_possible, "points")
                  \o When(IsoNaive(local.due_at) # canvas_data.assignment.due_at, "due_date")
                  \o When(to_canvas(local.grade_display) # canvas_data.assignment.grading_type,
                          "grading_type")
        ELSE When(canvas_data.assignment.present, "graded_status"))

\* The comparison _create_or_update_item and _preview run for the item's kind
Compare(item, canvas_data) ==
    CASE item.kind = "page" -> compare_page(item, canvas_data)
      [] item.kind = "assignment" -> compare_assignment(item, canvas_data)
      [] item.kind = "discussion" -> compare_discussion(item, canvas_data)
      [] item.kind = "header" -> compare_text_header(item, canvas_data)
      [] item.kind = "link" -> compare_external_link(item, canvas_data)

-----------------------------------------------------------------------------
(* LinkResolver. The tables hold references to the registered objects: a   *)
(* reference is the item's place <<m, k>> in the tree, read when resolving.*)

NewResolver == [pages |-> EmptyMap, assignments |-> EmptyMap,
                discussions |-> EmptyMap, files |-> EmptyMap]

register_page(res, title, ref) == [res EXCEPT !.pages = Put(@, Lower(title), ref)]

register_assignment(res, title, ref) ==
    [res EXCEPT !.assignments = Put(@, Lower(title), ref)]

register_discussion(res, title, ref) ==
    [res EXCEPT !.discussions = Put(@, Lower(title), ref)]

register_file(res, filename, file_data) ==
    [res EXCEPT !.files = Put(@, Lower(filename), file_data)]

\* The table resolve consults for a placeholder kind
ResolverTable(res, link_type) ==
    CASE link_type = "Page" -> res.pages
      [] link_type = "Assignment" -> res.assignments
      [] link_type = "Discussion" -> res.discussions

\* replace_link: the text that takes the place of one placeholder
replace_link(tok, res, mods) ==
    LET title_lower == Lower(tok.title) IN
    IF tok.kind = "File"
    THEN IF Has(res.files, title_lower) /\ res.files[title_lower].url # NoUrl
         THEN Anchor([kind |-> "files", tail |-> res.files[title_lower].id],
                     res.files[title_lower].display_name, "instructure_file_link")
         ELSE Text(tok.title)
    ELSE LET table == ResolverTable(res, tok.kind) IN
         IF Has(table, title_lower)
            /\ mods[table[title_lower][1]].items[table[title_lower][2]].canvas_url # NoUrl
         THEN Anchor(mods[table[title_lower][1]].items[table[title_lower][2]].canvas_url,
                     tok.title, "")
         ELSE Text(tok.title)

\* LinkResolver.resolve: LINK_PATTERN.sub(replace_link, content)
resolve(content, res, mods) ==
    [i \in 1..Len(content) |->
        IF IsPlaceholder(content[i]) THEN replace_link(content[i], res, mods)
        ELSE content[i]]

\* The placeholders of a body that resolve leaves without a link (its warnings)
Unresolved(content, res, mods) ==
    {i \in 1..Len(content) :
        IsPlaceholder(content[i]) /\ replace_link(content[i], res, mods).t # "a"}

-----------------------------------------------------------------------------
(* Course files *)

NoFile == [id |-> 0, display_name |-> "", url |-> NoUrl]

CourseFile(id, display_name) ==
    [id |-> id, display_name |-> display_name, url |-> [kind |-> "files", tail |-> id]]

\* A variant that takes the first match whatever its letter case
get_file_ignoring_case(filename, cache) ==
    LET loose == {i \in 1..Len(cache) : Lower(cache[i].display_name) = Lower(filename)}
        Min(S) == CHOOSE i \in S : \A j \in S : i <= j
    IN  IF loose # {} THEN cache[Min(loose)] ELSE NoFile

\* CanvasAPI.get_file_by_name with a cache given: an exact match first, then a
\* case-insensitive one, else None
get_file_by_name(filename, cache) ==
    LET exact == {i \in 1..Len(cache) : cache[i].display_name = filename}
        loose == {i \in 1..Len(cache) : Lower(cache[i].display_name) = Lower(filename)}
        Min(S) == CHOOSE i \in S : \A j \in S : i <= j
    IN  IF exact # {} THEN cache[Min(exact)]
        ELSE IF loose # {} THEN cache[Min(loose)]
        ELSE NoFile

\* build, lines 1252-1253: every cached file registered, in cache order
RECURSIVE RegisterFiles(_, _)
RegisterFiles(res, files) ==
    IF files = <<>> THEN res
    ELSE RegisterFiles(register_file(res, Head(files).display_name, Head(files)), Tail(files))

-----------------------------------------------------------------------------
(* CanvasAPI: each method builds the form data of one request. "fields"    *)
(* names the keys the request carries; the other entries are padding.      *)

NoData ==
    [fields |-> {}, name |-> "", body |-> <<>>, points_possible |-> 0, due_at |-> NoDue,
     grading_type |-> "", submission_types |-> {}, require_initial_post |-> FALSE,
     discussion_type |-> "", position |-> 0, module_id |-> 0, type |-> "",
     content_id |-> 0, page_url |-> 0, external_url |-> ""]

Request(op, id, data) == [op |-> op, id |-> id, data |-> data]

NoRequest == Request("none", 0, NoData)

create_module(name, position) ==
    Request("create_module", 0,
        [NoData EXCEPT !.fields = {"name", "position"}, !.name = name, !.position = position])

update_module(module_id, name, position) ==
    Request("update_module", module_id,
        [NoData EXCEPT !.fields = {"name", "position"}, !.name = name, !.position = position])

\* create_module_item / update_module_item send the keyword arguments that
\* are not None; kw names the arguments the caller passes
ModuleItemData(module_id, kw, data) ==
    [data EXCEPT !.module_id = module_id,
                 !.fields = {f \in kw : ~(f = "content_id" /\ data.content_id = 0)
                                        /\ ~(f = "page_url" /\ data.page_url = 0)}]

create_module_item(module_id, item_type, kw, data) ==
    Request("create_module_item", 0,
        [ModuleItemData(module_id, kw, data) EXCEPT !.type = item_type,
            !.fields = @ \cup {"type"}])

update_module_item(module_id, item_id, kw, data) ==
    Request("update_module_item", item_id, ModuleItemData(module_id, kw, data))

create_page(title, body) ==
    Request("create_page", 0,
        [NoData EXCEPT !.fields = {"title", "body", "published"}, !.name = title,
                       !.body = body])

\* A variant that sends the body and nothing else
update_page_body_only(page_url, body, title) ==
    Request("update_page", page_url, [NoData EXCEPT !.fields = {"body"}, !.body = body])

\* update_page sends the title only "if title:"
update_page(page_url, body, title) ==
    Request("update_page", page_url,
        [NoData EXCEPT !.fields = {"body"} \cup (IF title # "" THEN {"title"} ELSE {}),
                       !.name = title, !.body = body])

\* The submission types create_assignment sends: the list, or the default
SentSubmissionTypes(submission_types) ==
    IF submission_types = <<>> THEN {"online_text_entry"}
    ELSE {submission_types[i] : i \in 1..Len(submission_types)}

create_assignment(name, description, points_possible, due_at, grading_type, submission_types) ==
    Request("create_assignment", 0,
        [NoData EXCEPT
            !.fields = {"name", "description", "points_possible", "grading_type",
                        "published", "submission_types"}
                       \cup (IF due_at # 0 THEN {"due_at"} ELSE {}),
            !.name = name, !.body = description, !.points_possible = points_possible,
            !.due_at = IsoLocal(due_at), !.grading_type = grading_type,
            !.submission_types = SentSubmissionTypes(submission_types)])

\* A variant that sends the submission types it is given
update_assignment_with_types(assignment_id, name, description, points_possible, due_at, grading_type, submission_types) ==
    Request("update_assignment_full", assignment_id,
        [NoData EXCEPT
            !.fields = {"name", "description", "points_possible", "grading_type",
                        "submission_types"}
                       \cup (IF due_at # 0 THEN {"due_at"} ELSE {}),
            !.name = name, !.body = description, !.points_possible = points_possible,
            !.due_at = IsoLocal(due_at), !.grading_type = grading_type,
            !.submission_types = SentSubmissionTypes(submission_types)])

\* update_assignment_full takes submission_types and never sends them
update_assignment_full(assignment_id, name, description, points_possible, due_at, grading_type, submission_types) ==
    Request("update_assignment_full", assignment_id,
        [NoData EXCEPT
            !.fields = {"name", "description", "points_possible", "grading_type"}
                       \cup (IF due_at # 0 THEN {"due_at"} ELSE {}),
            !.name = name, !.body = description, !.points_possible = points_possible,
            !.due_at = IsoLocal(due_at), !.grading_type = grading_type])

update_assignment(assignment_id, description) ==
    Request("update_assignment", assignment_id,
        [NoData EXCEPT !.fields = {"description"}, !.body = description])

\* A variant without the "if graded:" guard
DiscussionDataUnguarded(title, message, require_initial_post, disc_type, graded, points_possible, due_at, grading_type) ==
    [NoData EXCEPT
        !.fields = {"title", "message", "require_initial_post", "discussion_type",
                    "points_possible", "grading_type"}
                   \cup (IF due_at # 0 THEN {"due_at"} ELSE {}),
        !.name = title, !.body = message, !.require_initial_post = require_initial_post,
        !.discussion_type = disc_type, !.points_possible = points_possible,
        !.due_at = IsoNaive(due_at), !.grading_type = grading_type]

\* The form data create_discussion and update_discussion_full share
DiscussionData(title, message, require_initial_post, disc_type, graded, points_possible, due_at, grading_type) ==
    [NoData EXCEPT
        !.fields = {"title", "message", "require_initial_post", "discussion_type"}
                   \cup (IF graded THEN {"points_possible", "grading_type"} ELSE {})
                   \cup (IF graded /\ due_at # 0 THEN {"due_at"} ELSE {}),
        !.name = title, !.body = message, !.require_initial_post = require_initial_post,
        !.discussion_type = disc_type,
        !.points_possible = IF graded THEN points_possible ELSE 0,
        !.due_at = IF graded THEN IsoNaive(due_at) ELSE NoDue,
        !.grading_type = IF graded THEN grading_type ELSE ""]

create_discussion(title, message, require_initial_post, disc_type, graded, points_possible, due_at, grading_type) ==
    Request("create_discussion", 0,
        [DiscussionData(title, message, require_initial_post, disc_type, graded,
                        points_possible, due_at, grading_type)
            EXCEPT !.fields = @ \cup {"published"}])

update_discussion_full(topic_id, title, message, require_initial_post, disc_type, graded, points_possible, due_at, grading_type) ==
    Request("update_discussion_full", topic_id,
        DiscussionData(title, message, require_initial_post, disc_type, graded,
                       points_possible, due_at, grading_type))

update_discussion(topic_id, message) ==
    Request("update_discussion", topic_id,
        [NoData EXCEPT !.fields = {"message"}, !.body = message])

CreateOps == {"create_module", "create_module_item", "create_page", "create_assignment",
              "create_discussion"}

UpdateOps == {"update_module", "update_module_item", "update_page",
              "update_assignment_full", "update_assignment", "update_discussion_full",
              "update_discussion"}

WriteOps == CreateOps \cup UpdateOps

ReadOps == {"get_files", "get_module", "get_module_item", "get_page", "get_assignment",
            "get_discussion"}

-----------------------------------------------------------------------------
(* The remote course, as the client sees it through _request: five tables  *)
(* of records by identity, the course files, and the next identity a       *)
(* create returns.                                                         *)

NoAssignment == [present |-> FALSE, points_possible |-> 0, due_at |-> NoDue,
                 grading_type |-> ""]

\* The service returns due dates as UTC text ("...Z"), whatever form was sent
ServerTime(d) == IF d.form = "none" THEN NoDue ELSE [inst |-> d.inst, form |-> "utc"]

PageUrl(id) == [kind |-> "pages", tail |-> id]

AssignmentUrl(id) == [kind |-> "assignments", tail |-> id]

DiscussionUrl(id) == [kind |-> "discussion_topics", tail |-> id]

\* Whether the path of the request names something the course holds; a
\* request for anything else is answered 404 and raise_for_status raises
TargetExists(srv, req) ==
    CASE req.op \in {"update_module", "get_module"} -> Has(srv.modules, req.id)
      [] req.op \in {"update_page", "get_page"} -> Has(srv.pages, req.id)
      [] req.op \in {"update_assignment_full", "update_assignment", "get_assignment"} ->
            Has(srv.assignments, req.id)
      [] req.op \in {"update_discussion_full", "update_discussion", "get_discussion"} ->
            Has(srv.discussions, req.id)
      [] req.op = "create_module_item" -> Has(srv.modules, req.data.module_id)
      [] req.op \in {"update_module_item", "get_module_item"} ->
            /\ Has(srv.modules, req.data.module_id)
            /\ Has(srv.module_items, req.id)
            /\ srv.module_items[req.id].module_id = req.data.module_id
      [] OTHER -> TRUE

Sent(req, f) == f \in req.data.fields

\* The record a successful write leaves in the course
Written(srv, req, id) ==
    LET d == req.data IN
    CASE req.op \in {"create_module", "update_module"} ->
            [name |-> d.name, position |-> d.position]
      [] req.op = "create_page" ->
            [title |-> d.name, body |-> d.body, page_id |-> id, html_url |-> PageUrl(id)]
      [] req.op = "update_page" ->
            [srv.pages[id] EXCEPT !.body = d.body,
                                  !.title = IF Sent(req, "title") THEN d.name ELSE @]
      [] req.op = "create_assignment" ->
            [name |-> d.name, description |-> d.body,
             points_possible |-> d.points_possible,
             due_at |-> IF Sent(req, "due_at") THEN ServerTime(d.due_at) ELSE NoDue,
             grading_type |-> d.grading_type, submission_types |-> d.submission_types,
             id |-> id, html_url |-> AssignmentUrl(id)]
      [] req.op = "update_assignment_full" ->
            [srv.assignments[id] EXCEPT
                !.name = d.name, !.description = d.body,
                !.points_possible = d.points_possible, !.grading_type = d.grading_type,
                !.due_at = IF Sent(req, "due_at") THEN ServerTime(d.due_at) ELSE @]
      [] req.op = "update_assignment" ->
            [srv.assignments[id] EXCEPT !.description = d.body]
      [] req.op = "create_discussion" ->
            [title |-> d.name, message |-> d.body,
             require_initial_post |-> d.require_initial_post,
             discussion_type |-> d.discussion_type,
             assignment |-> IF Sent(req, "points_possible")
                            THEN [present |-> TRUE, points_possible |-> d.points_possible,
                                  due_at |-> IF Sent(req, "due_at")
                                             THEN ServerTime(d.due_at) ELSE NoDue,
                                  grading_type |-> d.grading_type]
                            ELSE NoAssignment,
             id |-> id, html_url |-> DiscussionUrl(id)]
      [] req.op = "update_discussion_full" ->
            [srv.discussions[id] EXCEPT
                !.title = d.name, !.message = d.body,
                !.require_initial_post = d.require_initial_post,
                !.discussion_type = d.discussion_type,
                !.assignment = IF Sent(req, "points_possible")
                               THEN [present |-> TRUE,
                                     points_possible |-> d.points_possible,
                                     due_at |-> IF Sent(req, "due_at")
                                                THEN ServerTime(d.due_at) ELSE @.due_at,
                                     grading_type |-> d.grading_type]
                               ELSE @]
      [] req.op = "update_discussion" ->
            [srv.discussions[id] EXCEPT !.message = d.body]
      [] req.op = "create_module_item" ->
            [id |-> id, module_id |-> d.module_id, type |-> d.type,
             title |-> IF Sent(req, "title") THEN d.name ELSE "",
             position |-> d.position, content_id |-> d.content_id,
             page_url |-> d.page_url, external_url |-> d.external_url]
      [] req.op = "update_module_item" ->
            [srv.module_items[id] EXCEPT
                !.title = IF Sent(req, "title") THEN d.name ELSE @,
                !.position = IF Sent(req, "position") THEN d.position ELSE @,
                !.external_url = IF Sent(req, "external_url") THEN d.external_url ELSE @]

\* The table a write lands in
WrittenTable(op) ==
    CASE op \in {"create_module", "update_module"} -> "modules"
      [] op \in {"create_page", "update_page"} -> "pages"
      [] op \in {"create_assignment", "update_assignment_full", "update_assignment"} ->
            "assignments"
      [] op \in {"create_discussion", "update_discussion_full", "update_discussion"} ->
            "discussions"
      [] OTHER -> "module_items"

\* The identity a successful write is about: a fresh one for a create
WrittenId(srv, req) == IF req.op \in CreateOps THEN srv.next_id ELSE req.id

\* The course after a successful write
Apply(srv, req) ==
    LET id == WrittenId(srv, req)
        t == WrittenTable(req.op)
    IN  [srv EXCEPT ![t] = Put(@, id, Written(srv, req, id)),
                    !.next_id = IF req.op \in CreateOps THEN @ + 1 ELSE @]

\* result.get("html_url"): pages, assignments and discussions answer with one
ResultUrl(srv, req) ==
    LET id == WrittenId(srv, req) IN
    CASE WrittenTable(req.op) = "pages" -> PageUrl(id)
      [] WrittenTable(req.op) = "assignments" -> AssignmentUrl(id)
      [] WrittenTable(req.op) = "discussions" -> DiscussionUrl(id)
      [] OTHER -> NoUrl

\* The answer to a successful read
ReadTable(op) ==
    CASE op = "get_module" -> "modules"
      [] op = "get_page" -> "pages"
      [] op = "get_assignment" -> "assignments"
      [] op = "get_discussion" -> "discussions"
      [] op = "get_module_item" -> "module_items"

\* One entry of the call log
Call(r, handler, ent, req, ok, result) ==
    [run |-> r, handler |-> handler, op |-> req.op, ent |-> ent, id |-> req.id,
     data |-> req.data, ok |-> ok, result |-> result]

IsWrite(c) == c.op \in WriteOps

-----------------------------------------------------------------------------
(* The order build walks the tree in *)

\* A variant that handles the items of a module before the module
RECURSIVE EntsItemsFirst(_, _)
EntsItemsFirst(mods, m) ==
    IF m > Len(mods) THEN <<>>
    ELSE [k \in 1..Len(mods[m].items) |-> <<m, k>>] \o <<<<m, 0>>>>
         \o EntsItemsFirst(mods, m + 1)

\* Every module, each followed by its items: <<m, 0>> is module m itself,
\* <<m, k>> its k-th item (the nested loops of Phase 1 and of _preview)
RECURSIVE EntsFrom(_, _)
EntsFrom(mods, m) ==
    IF m > Len(mods) THEN <<>>
    ELSE <<<<m, 0>>>> \o [k \in 1..Len(mods[m].items) |-> <<m, k>>] \o EntsFrom(mods, m + 1)

Ents(mods) == EntsFrom(mods, 1)

\* The items alone (the nested loops of Phase 3)
ItemEnts(mods) == SelectSeq(Ents(mods), LAMBDA e : e[2] > 0)

ItemAt(mods, e) == mods[e[1]].items[e[2]]

EntSet(mods) == {Ents(mods)[i] : i \in 1..Len(Ents(mods))}

ItemSet(mods) == {e \in EntSet(mods) : e[2] > 0}

-----------------------------------------------------------------------------
(* Phase 0 *)

\* build, lines 1229-1242
has_files(mods) == \E e \in ItemSet(mods) : ItemAt(mods, e).kind = "file"

has_file_links(mods) ==
    \E e \in ItemSet(mods) :
        \/ HasFileLink(ItemAt(mods, e).content)
        \/ HasFileLink(ItemAt(mods, e).description)
        \/ HasFileLink(ItemAt(mods, e).message)

\* build, lines 1270-1279
has_existing(mods) ==
    \E m \in 1..Len(mods) :
        \/ mods[m].canvas_module_id # 0
        \/ \E k \in 1..Len(mods[m].items) :
              \/ mods[m].items[k].canvas_module_item_id # 0
              \/ mods[m].items[k].canvas_page_id # 0
              \/ mods[m].items[k].canvas_assignment_id # 0
              \/ mods[m].items[k].canvas_discussion_id # 0

\* The read _fetch_existing_data issues for an entity, if any
FetchRequest(mods, e) ==
    IF e[2] = 0
    THEN IF mods[e[1]].canvas_module_id # 0
         THEN Request("get_module", mods[e[1]].canvas_module_id, NoData)
         ELSE NoRequest
    ELSE LET item == ItemAt(mods, e) IN
         IF item.kind = "page" /\ item.canvas_page_id # 0
         THEN Request("get_page", item.canvas_page_id, NoData)
         ELSE IF item.kind = "assignment" /\ item.canvas_assignment_id # 0
         THEN Request("get_assignment", item.canvas_assignment_id, NoData)
         ELSE IF item.kind = "discussion" /\ item.canvas_discussion_id # 0
         THEN Request("get_discussion", item.canvas_discussion_id, NoData)
         ELSE IF /\ item.kind \in {"header", "link"}
                 /\ item.canvas_module_item_id # 0
                 /\ mods[e[1]].canvas_module_id # 0
         THEN Request("get_module_item", item.canvas_module_item_id,
                      [NoData EXCEPT !.module_id = mods[e[1]].canvas_module_id])
         ELSE NoRequest

\* The entities _fetch_existing_data reads, in order
FetchEnts(mods) == SelectSeq(Ents(mods), LAMBDA e : FetchRequest(mods, e) # NoRequest)

NewCache == [modules |-> EmptyMap, pages |-> EmptyMap, assignments |-> EmptyMap,
             discussions |-> EmptyMap, module_items |-> EmptyMap]

\* canvas_data_cache once the reads of the entities in ok have succeeded
Fetched(mods, srv, ok) ==
    [t \in DOMAIN NewCache |->
        LET ids == {FetchRequest(mods, e).id :
                      e \in {x \in ok : ReadTable(FetchRequest(mods, x).op) = t}}
        IN  [id \in ids |-> srv[t][id]]]

\* A variant that fetches the existing data over again
AfterPrefetchAgain(dry, mods) == "fetch"

\* A variant without the early return of a dry run
AfterPrefetchNoReturn(dry, mods) ==
    IF Ents(mods) = <<>> THEN "phase2" ELSE "phase1"

\* What follows Phase 0: the preview of a dry run, or Phase 1
AfterPrefetch(dry, mods) ==
    IF dry THEN "preview"
    ELSE IF Ents(mods) = <<>> THEN "phase2" ELSE "phase1"

-----------------------------------------------------------------------------
(* Phase 1: the create-or-update decisions *)

\* A variant that looks for the snapshot before it looks at the identity
DecideSnapshotFirst(id, has_snapshot, changed_fields) ==
    IF ~has_snapshot THEN "update"
    ELSE IF changed_fields # <<>> THEN "update"
    ELSE "skip"

\* A variant that takes an entity without a snapshot for a new one
DecideNoSnapshotCreates(id, has_snapshot, changed_fields) ==
    IF id = 0 \/ ~has_snapshot THEN "create"
    ELSE IF changed_fields # <<>> THEN "update"
    ELSE "skip"

\* The three-way branch build and _create_or_update_item repeat for every
\* kind: no identity, identity without snapshot, identity with snapshot
Decide(id, has_snapshot, changed_fields) ==
    IF id = 0 THEN "create"
    ELSE IF ~has_snapshot THEN "update"
    ELSE IF changed_fields # <<>> THEN "update"
    ELSE "skip"

\* build, lines 1303-1323
ModuleDecision(module, cache) ==
    Decide(module.canvas_module_id,
           Has(cache.modules, module.canvas_module_id),
           IF Has(cache.modules, module.canvas_module_id)
           THEN compare_module(module, cache.modules[module.canvas_module_id])
           ELSE <<>>)

ModuleRequest(module, i, decision) ==
    CASE decision = "create" -> create_module(module.title, i)
      [] decision = "update" -> update_module(module.canvas_module_id, module.title, i)
      [] OTHER -> NoRequest

\* A variant that takes no notice of the snapshot of an item that is placed
ItemDecisionPlaced(item, cache) ==
    LET id == ContentIdOf(item)
        table == cache[TableOf(item.kind)]
        seen == Has(table, id) /\ item.canvas_module_item_id = 0
    IN  Decide(id, seen, IF seen THEN Compare(item, table[id]) ELSE <<>>)

\* _create_or_update_item, for a page, an assignment or a discussion
ItemDecision(item, cache) ==
    LET id == ContentIdOf(item)
        table == cache[TableOf(item.kind)]
    IN  Decide(id, Has(table, id),
               IF Has(table, id) THEN Compare(item, table[id]) ELSE <<>>)

\* The call _create_or_update_item makes for the decision
ItemRequest(item, decision) ==
    CASE item.kind = "page" /\ decision = "create" ->
            create_page(item.title, item.content)
      [] item.kind = "page" /\ decision = "update" ->
            update_page(item.canvas_page_id, item.content, item.title)
      [] item.kind = "assignment" /\ decision = "create" ->
            create_assignment(item.title, item.description, item.points, item.due_at,
                              to_canvas(item.grade_display), item.submission_types)
      [] item.kind = "assignment" /\ decision = "update" ->
            update_assignment_full(item.canvas_assignment_id, item.title,
                                   item.description, item.points, item.due_at,
                                   to_canvas(item.grade_display), item.submission_types)
      [] item.kind = "discussion" /\ decision = "create" ->
            create_discussion(item.title, item.message, item.require_initial_post,
                              discussion_type(item), item.graded,
                              IF item.graded THEN item.points ELSE 0,
                              IF item.graded THEN item.due_at ELSE 0,
                              IF item.graded THEN to_canvas(item.grade_display)
                              ELSE "pass_fail")
      [] item.kind = "discussion" /\ decision = "update" ->
            update_discussion_full(item.canvas_discussion_id, item.title, item.message,
                              item.require_initial_post, discussion_type(item),
                              item.graded,
                              IF item.graded THEN item.points ELSE 0,
                              IF item.graded THEN item.due_at ELSE 0,
                              IF item.graded THEN to_canvas(item.grade_display)
                              ELSE "pass_fail")
      [] OTHER -> NoRequest

\* The item once its branch of _create_or_update_item has run to the end:
\* canvas_id and canvas_url are set from the result of the call, or from the
\* snapshot when the call is skipped; a file takes them from the file cache
ItemAfter(item, decision, srv, req, cache, files) ==
    IF item.kind \in ContentKinds
    THEN [item EXCEPT
            !.canvas_id = IF decision = "create" THEN WrittenId(srv, req)
                          ELSE ContentIdOf(item),
            !.canvas_url = IF decision = "skip"
                           THEN cache[TableOf(item.kind)][ContentIdOf(item)].html_url
                           ELSE ResultUrl(srv, req)]
    ELSE IF item.kind = "file" /\ get_file_by_name(item.filename, files) # NoFile
    THEN [item EXCEPT !.canvas_file_id = get_file_by_name(item.filename, files).id,
                      !.canvas_url = get_file_by_name(item.filename, files).url]
    ELSE item

\* A variant that registers pages only
RegisteredPagesOnly(res, item, e) ==
    IF item.kind = "page" THEN register_page(res, item.title, e) ELSE res

\* A variant that keeps the first registration under a title
RegisteredFirst(res, item, e) ==
    CASE item.kind = "page" /\ ~Has(res.pages, Lower(item.title)) ->
            register_page(res, item.title, e)
      [] item.kind = "assignment" /\ ~Has(res.assignments, Lower(item.title)) ->
            register_assignment(res, item.title, e)
      [] item.kind = "discussion" /\ ~Has(res.discussions, Lower(item.title)) ->
            register_discussion(res, item.title, e)
      [] OTHER -> res

\* resolver.register_page / register_assignment / register_discussion
Registered(res, item, e) ==
    CASE item.kind = "page" -> register_page(res, item.title, e)
      [] item.kind = "assignment" -> register_assignment(res, item.title, e)
      [] item.kind = "discussion" -> register_discussion(res, item.title, e)
      [] OTHER -> res

\* A variant that queues every item that has a body
NeedsLinkResolutionAlways(item) == item.kind \in ContentKinds

\* Whether _create_or_update_item queues the item for Phase 2
NeedsLinkResolution(item) ==
    item.kind \in ContentKinds /\ has_internal_links(BodyOf(item))

\* How a request can end: a write may fail; a request for something the
\* course does not hold must fail; nothing to send cannot fail
Outcomes(srv, req) ==
    IF req = NoRequest THEN {TRUE}
    ELSE IF TargetExists(srv, req) THEN {TRUE, FALSE}
    ELSE {FALSE}

Logged(log, r, handler, e, srv, req, ok) ==
    IF req = NoRequest THEN log
    ELSE Append(log, Call(r, handler, e, req, ok,
                          IF ok /\ req.op \in WriteOps THEN WrittenId(srv, req) ELSE 0))

\* A variant that resolves links as soon as one entity has been handled
AfterPhase1Inline(mods, i) == "phase2"

\* What follows the Phase-1 step at place i
AfterPhase1(mods, i) == IF i < Len(Ents(mods)) THEN "phase1" ELSE "phase2"

-----------------------------------------------------------------------------
(* Phase 2: _resolve_links *)

\* The update _resolve_links sends for a queued item
ResolveRequest(item, res, mods) ==
    CASE item.kind = "page" ->
            update_page(item.canvas_url.tail, resolve(item.content, res, mods), "")
      [] item.kind = "assignment" ->
            update_assignment(item.canvas_id, resolve(item.description, res, mods))
      [] item.kind = "discussion" ->
            update_discussion(item.canvas_id, resolve(item.message, res, mods))

\* The course after the first n updates of the queue have succeeded
RECURSIVE ResolvedServer(_, _, _, _, _)
ResolvedServer(srv, queue, n, res, mods) ==
    IF n = 0 THEN srv
    ELSE Apply(ResolvedServer(srv, queue, n - 1, res, mods),
               ResolveRequest(ItemAt(mods, queue[n]), res, mods))

\* What follows Phase 2
AfterPhase2(mods) == IF ItemEnts(mods) = <<>> THEN "done" ELSE "phase3"

-----------------------------------------------------------------------------
(* Phase 3: _add_to_module *)

\* A variant that counts from zero: enumerate(module.items)
PositionFromZero(k) == k - 1

\* enumerate(module.items, start=1)
PositionOf(k) == k

\* item.canvas_url.split('/')[-1] if item.canvas_url else item.canvas_id
PageUrlArg(item) == IF item.canvas_url # NoUrl THEN item.canvas_url.tail ELSE item.canvas_id

\* The call _add_to_module makes for an item; none for a file that was not found
AddToModuleRequest(module, item, position) ==
    LET existing_item_id == item.canvas_module_item_id
        data == [NoData EXCEPT !.position = position, !.name = item.title]
    IN
    CASE item.kind = "header" ->
            IF existing_item_id # 0
            THEN update_module_item(module.canvas_id, existing_item_id,
                                    {"title", "position"}, data)
            ELSE create_module_item(module.canvas_id, "SubHeader",
                                    {"title", "position"}, data)
      [] item.kind = "page" ->
            IF existing_item_id # 0
            THEN update_module_item(module.canvas_id, existing_item_id, {"position"}, data)
            ELSE create_module_item(module.canvas_id, "Page",
                                    {"content_id", "page_url", "position"},
                                    [data EXCEPT !.content_id = item.canvas_id,
                                                 !.page_url = PageUrlArg(item)])
      [] item.kind = "link" ->
            IF existing_item_id # 0
            THEN update_module_item(module.canvas_id, existing_item_id,
                                    {"title", "external_url", "position"},
                                    [data EXCEPT !.external_url = item.url])
            ELSE create_module_item(module.canvas_id, "ExternalUrl",
                                    {"title", "external_url", "new_tab", "position"},
                                    [data EXCEPT !.external_url = item.url])
      [] item.kind = "file" ->
            IF item.canvas_file_id = 0 THEN NoRequest
            ELSE IF existing_item_id # 0
            THEN update_module_item(module.canvas_id, existing_item_id,
                                    {"title", "position"}, data)
            ELSE create_module_item(module.canvas_id, "File",
                                    {"content_id", "title", "position"},
                                    [data EXCEPT !.content_id = item.canvas_file_id])
      [] item.kind = "assignment" ->
            IF existing_item_id # 0
            THEN update_module_item(module.canvas_id, existing_item_id, {"position"}, data)
            ELSE create_module_item(module.canvas_id, "Assignment",
                                    {"content_id", "position"},
                                    [data EXCEPT !.content_id = item.canvas_id])
      [] item.kind = "discussion" ->
            IF existing_item_id # 0
            THEN update_module_item(module.canvas_id, existing_item_id, {"position"}, data)
            ELSE create_module_item(module.canvas_id, "Discussion",
                                    {"content_id", "position"},
                                    [data EXCEPT !.content_id = item.canvas_id])

\* What follows the Phase-3 step at place i
AfterPhase3(mods, i) == IF i < Len(ItemEnts(mods)) THEN "phase3" ELSE "done"

-----------------------------------------------------------------------------
(* The dry-run preview *)

\* _preview: the mode it prints for an entity
PreviewDecision(mods, cache, files, e) ==
    IF e[2] = 0
    THEN LET module == mods[e[1]] IN
         IF module.canvas_module_id # 0
         THEN IF Has(cache.modules, module.canvas_module_id)
              THEN IF compare_module(module, cache.modules[module.canvas_module_id]) # <<>>
                   THEN "update" ELSE "skip"
              ELSE "update"
         ELSE "create"
    ELSE LET item == ItemAt(mods, e) IN
         IF item.kind = "file"
         THEN IF files # <<>> /\ get_file_by_name(item.filename, files) # NoFile
              THEN "found" ELSE "not found"
         ELSE LET id == IF item.kind \in {"header", "link"}
                        THEN item.canvas_module_item_id ELSE ContentIdOf(item)
                  table == cache[TableOf(item.kind)]
              IN  IF id # 0
                  THEN IF Has(table, id)
                       THEN IF Compare(item, table[id]) # <<>> THEN "update" ELSE "skip"
                       ELSE "update"
                  ELSE "create"

-----------------------------------------------------------------------------
(* The trees and remote courses build is run on                            *)
(*                                                                         *)
(* A tree is a shape (the number of items of each module) filled with item *)
(* templates. The item in slot j (counting over the whole tree) is titled  *)
(* SlotTitle(j) and, when it declares identities, declares identity j;     *)
(* module m declares identity m. A template says the kind, whether the     *)
(* item declares a content identity (existing; for a file, the identity of *)
(* the course file), whether it declares a                                 *)
(* placement identity (placed), and what its body refers to: nothing, the  *)
(* next item of the tree (cyclically), or a course file.                   *)

SlotTitle(j) == CASE j = 1 -> "Intro" [] j = 2 -> "Notes" [] OTHER -> "Extra"

ModuleTitle(m) == CASE m = 1 -> "Week 1" [] m = 2 -> "Week 2" [] OTHER -> "Week 3"

Templates ==
    {[kind |-> k, existing |-> FALSE, placed |-> p, ref |-> "none"] :
        k \in {"header", "link", "file"}, p \in BOOLEAN}
    \cup {[kind |-> "file", existing |-> TRUE, placed |-> p, ref |-> "none"] :
        p \in BOOLEAN}
    \cup {[kind |-> k, existing |-> x, placed |-> p, ref |-> r] :
        k \in ContentKinds, x \in BOOLEAN, p \in BOOLEAN, r \in {"none", "item", "file"}}

\* The templates of a tree of two items: headers, files, pages and
\* assignments; content and placement identity declared together; no file
\* reference in a body
CoreTemplates ==
    {t \in Templates :
        /\ t.kind \in {"header", "file", "page", "assignment"}
        /\ t.kind \in ContentKinds => t.placed = t.existing
        /\ t.kind = "file" => ~t.placed /\ ~t.existing
        /\ t.ref # "file"}

\* The templates of a larger tree: new headers and files, and new pages
\* that refer to the next item
MiniTemplates ==
    {t \in CoreTemplates :
        /\ t.kind \in {"header", "file", "page"}
        /\ ~t.placed
        /\ t.kind = "page" => t.ref = "item"}

\* The more items a tree has, the fewer templates they are drawn from
TemplatesFor(n) ==
    IF n <= 1 THEN Templates ELSE IF n = 2 THEN CoreTemplates ELSE MiniTemplates

\* The shapes: at most MaxModules modules and MaxItems items; a module
\* without items only in a tree of at most one item and two modules
Shapes ==
    {s \in UNION {[1..n -> 0..MaxItems] : n \in 0..MaxModules} :
        /\ SumSeq(s) <= MaxItems
        /\ (SumSeq(s) > 1 \/ Len(s) > 2) => \A m \in 1..Len(s) : s[m] > 0}

LinkKindOf(kind) ==
    CASE kind = "assignment" -> "Assignment"
      [] kind = "discussion" -> "Discussion"
      [] OTHER -> "Page"

\* The item of template tpls[j] in slot j of a tree of n items
Instantiate(tpls, j, n) ==
    LET t == tpls[j]
        target == (j % n) + 1
        body == CASE t.ref = "none" -> <<Text("see")>>
                  [] t.ref = "item" ->
                        <<Text("see"), Ref(LinkKindOf(tpls[target].kind), SlotTitle(target))>>
                  [] t.ref = "file" -> <<Text("read"), Ref("File", "f.pdf")>>
        id == IF t.existing THEN j ELSE 0
        miid == IF t.placed THEN j ELSE 0
    IN  CASE t.kind = "header" -> TextHeader(SlotTitle(j), miid)
          [] t.kind = "link" -> ExternalLink(SlotTitle(j), "http://example.com", miid)
          [] t.kind = "file" -> File(SlotTitle(j), "f.pdf", id, miid)
          [] t.kind = "page" -> Page(SlotTitle(j), body, id, miid)
          [] t.kind = "assignment" -> Assignment(SlotTitle(j), body, id, miid)
          [] t.kind = "discussion" -> Discussion(SlotTitle(j), body, id, miid)

\* Slots before module m of shape s
RECURSIVE Offset(_, _)
Offset(s, m) == IF m = 1 THEN 0 ELSE Offset(s, m - 1) + s[m - 1]

\* The tree of shape s filled with tpls; declared[m] says whether module m
\* declares its identity
Tree(s, tpls, declared) ==
    [m \in 1..Len(s) |->
        Module(ModuleTitle(m),
               [k \in 1..s[m] |-> Instantiate(tpls, Offset(s, m) + k, SumSeq(s))],
               IF declared[m] THEN m ELSE 0)]

\* The entities that declare an identity the remote course holds a record for
DeclaredEnts(mods) ==
    {e \in EntSet(mods) :
        IF e[2] = 0 THEN mods[e[1]].canvas_module_id # 0
        ELSE \/ ContentIdOf(ItemAt(mods, e)) # 0
             \/ ItemAt(mods, e).canvas_module_item_id # 0}

\* The entity that declares identity id in table t
Declarer(mods, t, id) ==
    CHOOSE e \in EntSet(mods) :
        IF t = "modules" THEN e[2] = 0 /\ mods[e[1]].canvas_module_id = id
        ELSE IF t = "module_items"
        THEN e[2] > 0 /\ ItemAt(mods, e).canvas_module_item_id = id
        ELSE /\ e[2] > 0
             /\ TableOf(ItemAt(mods, e).kind) = t
             /\ ContentIdOf(ItemAt(mods, e)) = id

DeclaredIds(mods, t) ==
    {id \in 1..(MaxModules + MaxItems) :
        \E e \in EntSet(mods) :
            IF t = "modules" THEN e[2] = 0 /\ mods[e[1]].canvas_module_id = id
            ELSE IF t = "module_items"
            THEN e[2] > 0 /\ ItemAt(mods, e).canvas_module_item_id = id
            ELSE /\ e[2] > 0
                 /\ TableOf(ItemAt(mods, e).kind) = t
                 /\ ContentIdOf(ItemAt(mods, e)) = id}

\* The remote record of a declared entity: what a run on the local entity
\* would have left, or, for the entities in stale, the same under an old title
\* (and, for an assignment, with another submission type)
RemoteRecord(mods, t, id, stale) ==
    LET e == Declarer(mods, t, id)
        old == e \in stale
    IN
    IF t = "modules"
    THEN [name |-> IF old THEN "Old" ELSE mods[e[1]].title, position |-> e[1]]
    ELSE LET item == ItemAt(mods, e)
             title == IF old THEN "Old" ELSE item.title
         IN
         CASE t = "pages" ->
                [title |-> title, body |-> item.content, page_id |-> id,
                 html_url |-> PageUrl(id)]
           [] t = "assignments" ->
                [name |-> title, description |-> item.description,
                 points_possible |-> item.points,
                 due_at |-> ServerTime(IsoLocal(item.due_at)),
                 grading_type |-> to_canvas(item.grade_display),
                 submission_types |-> IF old THEN {"online_upload"}
                                      ELSE SentSubmissionTypes(item.submission_types),
                 id |-> id, html_url |-> AssignmentUrl(id)]
           [] t = "discussions" ->
                [title |-> title, message |-> item.message,
                 require_initial_post |-> item.require_initial_post,
                 discussion_type |-> discussion_type(item),
                 assignment |-> IF item.graded
                                THEN [present |-> TRUE, points_possible |-> item.points,
                                      due_at |-> ServerTime(IsoNaive(item.due_at)),
                                      grading_type |-> to_canvas(item.grade_display)]
                                ELSE NoAssignment,
                 id |-> id, html_url |-> DiscussionUrl(id)]
           [] t = "module_items" ->
                [id |-> id, module_id |-> mods[e[1]].canvas_module_id, type |-> item.kind,
                 title |-> IF item.kind \in {"header", "link"} THEN title ELSE item.title,
                 position |-> PositionOf(e[2]), content_id |-> ContentIdOf(item),
                 page_url |-> ContentIdOf(item), external_url |-> item.url]

\* The remote course a tree is run against
Course(mods, stale, files) ==
    [modules |-> [id \in DeclaredIds(mods, "modules") |->
                     RemoteRecord(mods, "modules", id, stale)],
     pages |-> [id \in DeclaredIds(mods, "pages") |->
                     RemoteRecord(mods, "pages", id, stale)],
     assignments |-> [id \in DeclaredIds(mods, "assignments") |->
                     RemoteRecord(mods, "assignments", id, stale)],
     discussions |-> [id \in DeclaredIds(mods, "discussions") |->
                     RemoteRecord(mods, "discussions", id, stale)],
     module_items |-> [id \in DeclaredIds(mods, "module_items") |->
                     RemoteRecord(mods, "module_items", id, stale)],
     files |-> files,
     next_id |-> MaxModules + MaxItems + 1]

\* The file listings of the remote course
FileLists == {<<>>, <<CourseFile(1, "f.pdf")>>}

\* The listing after f.pdf was deleted and uploaded again: a new identity
ReplacedFileLists == {<<CourseFile(2, "f.pdf")>>}

\* CourseBuilder.__init__, and build's arguments
Start(mods, srv, dry, r, log) ==
    /\ modules = mods
    /\ dry_run = dry
    /\ pc = "files"
    /\ pos = 0
    /\ files_cache = <<>>
    /\ canvas_data_cache = NewCache
    /\ resolver = NewResolver
    /\ items_needing_link_resolution = <<>>
    /\ preview = EmptyMap
    /\ server = srv
    /\ calls = log
    /\ run = r

Init ==
    \E s \in Shapes :
    \E tpls \in [1..SumSeq(s) -> TemplatesFor(SumSeq(s))] :
    \E declared \in [1..Len(s) -> BOOLEAN] :
        LET mods == Tree(s, tpls, declared) IN
        \E stale \in SUBSET DeclaredEnts(mods) :
        \E files \in (IF has_files(mods) \/ has_file_links(mods)
                      THEN FileLists \cup (IF SumSeq(s) <= 1 THEN ReplacedFileLists ELSE {})
                      ELSE {<<>>}) :
        \E dry \in BOOLEAN :
            /\ SumSeq(s) > 1 => stale \in {{}, DeclaredEnts(mods)}
            /\ Start(mods, Course(mods, stale, files), dry, 1, <<>>)

-----------------------------------------------------------------------------
(* build, step by step *)

\* build, lines 1229-1253: the file listing, fetched when a file item or a
\* [[File:...]] placeholder exists. get_files is not guarded: when it raises,
\* build ends there.
FetchFiles ==
    /\ pc = "files"
    /\ IF has_files(modules) \/ has_file_links(modules)
       THEN \E ok \in BOOLEAN :
              /\ calls' = Append(calls, Call(run, "build", <<0, 0>>,
                                             Request("get_files", 0, NoData), ok, 0))
              /\ IF ok
                 THEN /\ files_cache' = server.files
                      /\ resolver' = RegisterFiles(resolver, server.files)
                      /\ pc' = "fetch"
                 ELSE /\ pc' = "aborted"
                      /\ UNCHANGED <<files_cache, resolver>>
       ELSE /\ pc' = "fetch"
            /\ UNCHANGED <<calls, files_cache, resolver>>
    /\ UNCHANGED <<modules, dry_run, pos, canvas_data_cache,
                   items_needing_link_resolution, preview, server, run>>

\* build, lines 1270-1285, and _fetch_existing_data: one read per declared
\* identity, each in its own try/except; the reads of the entities in failed
\* raise and leave no snapshot
FetchExistingData ==
    /\ pc = "fetch"
    /\ IF has_existing(modules)
       THEN LET targets == FetchEnts(modules)
                all == {targets[i] : i \in 1..Len(targets)}
                missing == {e \in all : ~TargetExists(server, FetchRequest(modules, e))}
            IN  \E failed \in SUBSET all :
                  /\ missing \subseteq failed
                  /\ Cardinality(failed \ missing) <= MaxFetchFailures
                  /\ canvas_data_cache' = Fetched(modules, server, all \ failed)
                  /\ calls' = calls \o
                        [i \in 1..Len(targets) |->
                            Call(run, "_fetch_existing_data", targets[i],
                                 FetchRequest(modules, targets[i]),
                                 targets[i] \notin failed, 0)]
       ELSE UNCHANGED <<canvas_data_cache, calls>>
    /\ pc' = AfterPrefetch(dry_run, modules)
    /\ pos' = 1
    /\ UNCHANGED <<modules, dry_run, files_cache, resolver,
                   items_needing_link_resolution, preview, server, run>>

\* build, lines 1288-1290, and _preview
Preview ==
    /\ pc = "preview"
    /\ preview' = [e \in EntSet(modules) |->
                      PreviewDecision(modules, canvas_data_cache, files_cache, e)]
    /\ pc' = "done"
    /\ UNCHANGED <<modules, dry_run, pos, files_cache, canvas_data_cache, resolver,
                   items_needing_link_resolution, server, calls, run>>

\* build, lines 1299-1323: the module at the head of the outer loop of Phase 1
CreateOrUpdateModule ==
    /\ pc = "phase1"
    /\ Ents(modules)[pos][2] = 0
    /\ LET e == Ents(modules)[pos]
           module == modules[e[1]]
           decision == ModuleDecision(module, canvas_data_cache)
           req == ModuleRequest(module, e[1], decision)
       IN  \E ok \in Outcomes(server, req) :
             /\ calls' = Logged(calls, run, "build", e, server, req, ok)
             /\ IF ok
                THEN /\ server' = IF req = NoRequest THEN server ELSE Apply(server, req)
                     /\ modules' = [modules EXCEPT ![e[1]].canvas_id =
                                       IF decision = "create" THEN WrittenId(server, req)
                                       ELSE module.canvas_module_id]
                     /\ pc' = AfterPhase1(modules, pos)
                     /\ pos' = IF pos < Len(Ents(modules)) THEN pos + 1 ELSE 1
                ELSE /\ pc' = "aborted"
                     /\ UNCHANGED <<server, modules, pos>>
    /\ UNCHANGED <<dry_run, files_cache, canvas_data_cache, resolver,
                   items_needing_link_resolution, preview, run>>

\* _create_or_update_item, called for the item at the head of the inner loop.
\* The item is queued for Phase 2 before the call; it is registered with the
\* resolver after it.
CreateOrUpdateItem ==
    /\ pc = "phase1"
    /\ Ents(modules)[pos][2] > 0
    /\ LET e == Ents(modules)[pos]
           item == ItemAt(modules, e)
           decision == IF item.kind \in ContentKinds
                       THEN ItemDecision(item, canvas_data_cache) ELSE "none"
           req == ItemRequest(item, decision)
           after == ItemAfter(item, decision, server, req, canvas_data_cache, files_cache)
       IN  \E ok \in Outcomes(server, req) :
             /\ calls' = Logged(calls, run, "_create_or_update_item", e, server, req, ok)
             /\ items_needing_link_resolution' =
                    IF NeedsLinkResolution(item)
                    THEN Append(items_needing_link_resolution, e)
                    ELSE items_needing_link_resolution
             /\ IF ok
                THEN /\ server' = IF req = NoRequest THEN server ELSE Apply(server, req)
                     /\ modules' = [modules EXCEPT ![e[1]].items[e[2]] = after]
                     /\ resolver' = Registered(resolver, item, e)
                     /\ pc' = AfterPhase1(modules, pos)
                     /\ pos' = IF pos < Len(Ents(modules)) THEN pos + 1 ELSE 1
                ELSE /\ pc' = "aborted"
                     /\ UNCHANGED <<server, modules, resolver, pos>>
    /\ UNCHANGED <<dry_run, files_cache, canvas_data_cache, preview, run>>

\* _resolve_links: one update per queued item, in queue order; the first n
\* succeed and, when n is not the whole queue, the next one raises
ResolveLinks ==
    /\ pc = "phase2"
    /\ LET queue == items_needing_link_resolution
           Req(i) == ResolveRequest(ItemAt(modules, queue[i]), resolver, modules)
       IN  \E n \in 0..Len(queue) :
             /\ \A i \in 1..n : TargetExists(server, Req(i))
             /\ server' = ResolvedServer(server, queue, n, resolver, modules)
             /\ calls' = calls \o
                   [i \in 1..(IF n < Len(queue) THEN n + 1 ELSE n) |->
                       Call(run, "_resolve_links", queue[i], Req(i), i <= n,
                            IF i <= n THEN Req(i).id ELSE 0)]
             /\ pc' = IF n < Len(queue) THEN "aborted" ELSE AfterPhase2(modules)
    /\ pos' = 1
    /\ UNCHANGED <<modules, dry_run, files_cache, canvas_data_cache, resolver,
                   items_needing_link_resolution, preview, run>>

\* _add_to_module, called for the item at the head of the loops of Phase 3
AddToModule ==
    /\ pc = "phase3"
    /\ LET e == ItemEnts(modules)[pos]
           req == AddToModuleRequest(modules[e[1]], ItemAt(modules, e), PositionOf(e[2]))
       IN  \E ok \in Outcomes(server, req) :
             /\ calls' = Logged(calls, run, "_add_to_module", e, server, req, ok)
             /\ IF ok
                THEN /\ server' = IF req = NoRequest THEN server ELSE Apply(server, req)
                     /\ pc' = AfterPhase3(modules, pos)
                     /\ pos' = IF pos < Len(ItemEnts(modules)) THEN pos + 1 ELSE 1
                ELSE /\ pc' = "aborted"
                     /\ UNCHANGED <<server, pos>>
    /\ UNCHANGED <<modules, dry_run, files_cache, canvas_data_cache, resolver,
                   items_needing_link_resolution, preview, run>>

Next ==
    \/ FetchFiles
    \/ FetchExistingData
    \/ Preview
    \/ CreateOrUpdateModule
    \/ CreateOrUpdateItem
    \/ ResolveLinks
    \/ AddToModule

Spec == Init /\ [][Next]_vars

-----------------------------------------------------------------------------
(* Running build again. The document is unchanged but for the identity     *)
(* markers: every entity now declares the content identity the first run   *)
(* left in canvas_id and the placement identity the course gave it. A new  *)
(* CourseBuilder runs on the tree parsed from it.                          *)

\* The identity of the module item the first run placed for an entity
PlacedId(log, e, declared_id) ==
    LET made == {i \in 1..Len(log) :
                    /\ log[i].op = "create_module_item"
                    /\ log[i].ent = e
                    /\ log[i].ok}
    IN  IF declared_id # 0 THEN declared_id
        ELSE IF made = {} THEN 0
        ELSE log[CHOOSE i \in made : TRUE].result

Reparsed(mods, log) ==
    [m \in 1..Len(mods) |->
        [mods[m] EXCEPT
            !.canvas_module_id = mods[m].canvas_id,
            !.canvas_id = 0,
            !.items = [k \in 1..Len(mods[m].items) |->
                LET item == mods[m].items[k] IN
                [item EXCEPT
                    !.canvas_page_id =
                        IF item.kind = "page" THEN item.canvas_id ELSE @,
                    !.canvas_assignment_id =
                        IF item.kind = "assignment" THEN item.canvas_id ELSE @,
                    !.canvas_discussion_id =
                        IF item.kind = "discussion" THEN item.canvas_id ELSE @,
                    !.canvas_module_item_id =
                        PlacedId(log, <<m, k>>, item.canvas_module_item_id),
                    !.canvas_id = 0,
                    !.canvas_url = NoUrl]]]]

Rerun ==
    /\ pc = "done"
    /\ ~dry_run
    /\ run = 1
    /\ modules' = Reparsed(modules, calls)
    /\ pc' = "files"
    /\ pos' = 0
    /\ files_cache' = <<>>
    /\ canvas_data_cache' = NewCache
    /\ resolver' = NewResolver
    /\ items_needing_link_resolution' = <<>>
    /\ preview' = EmptyMap
    /\ run' = 2
    /\ UNCHANGED <<dry_run, server, calls>>

NextRerun == Next \/ Rerun

SpecRerun == Init /\ [][NextRerun]_vars

-----------------------------------------------------------------------------
(* Reading the call log *)

CallsOf(r) == {i \in 1..Len(calls) : calls[i].run = r}

WritesOf(r) == {i \in CallsOf(r) : IsWrite(calls[i])}

FailedReads(r) == {i \in CallsOf(r) : calls[i].op \in ReadOps /\ ~calls[i].ok}

FailedWrites(r) == {i \in WritesOf(r) : ~calls[i].ok}

-----------------------------------------------------------------------------
(* C1: idempotence. When a non-dry build has completed and build runs      *)
(* again on the same tree, now carrying the identities of the first run,   *)
(* against the course the first run left, and every read of the second run *)
(* succeeds, the second run issues no write call.                          *)

C1_SecondRunWritesNothing ==
    (run = 2 /\ FailedReads(2) = {}) => WritesOf(2) = {}

-----------------------------------------------------------------------------
(* Entities and what Phase 1 did for them *)

\* The place of an entity in the order of Phase 1
Place(mods, e) == CHOOSE i \in 1..Len(Ents(mods)) : Ents(mods)[i] = e

\* The entities with a content resource of their own
ContentEnts(mods) ==
    {e \in EntSet(mods) : e[2] = 0 \/ ItemAt(mods, e).kind \in ContentKinds}

\* The content identity the document declares for an entity
DeclaredId(mods, e) ==
    IF e[2] = 0 THEN mods[e[1]].canvas_module_id ELSE ContentIdOf(ItemAt(mods, e))

\* Whether the cache holds a snapshot for the declared content identity
HasSnapshot(mods, cache, e) ==
    IF e[2] = 0 THEN Has(cache.modules, DeclaredId(mods, e))
    ELSE Has(cache[TableOf(ItemAt(mods, e).kind)], DeclaredId(mods, e))

\* The loops of Phase 1 of a non-dry build have gone past the entity
Phase1Done(e) ==
    /\ ~dry_run
    /\ \/ pc \in {"phase2", "phase3", "done"}
       \/ pc = "phase1" /\ Place(modules, e) < pos

Phase1Handlers == {"build", "_create_or_update_item"}

\* The Phase-1 calls of the current run for an entity, among the given methods
Phase1Calls(e, ops) ==
    {i \in CallsOf(run) :
        /\ calls[i].ent = e
        /\ calls[i].handler \in Phase1Handlers
        /\ calls[i].op \in ops}

-----------------------------------------------------------------------------
(* C2: an entity of any kind (module, text header, external link, page,    *)
(* assignment, discussion) that declares a remote identity and whose       *)
(* prefetched snapshot the comparator reports as unchanged receives no     *)
(* write call in any phase of a non-dry build.                             *)

\* The identity under which the snapshot of an entity is cached
SnapshotId(mods, e) ==
    IF e[2] > 0 /\ ItemAt(mods, e).kind \in {"header", "link"}
    THEN ItemAt(mods, e).canvas_module_item_id
    ELSE DeclaredId(mods, e)

ExistingUnchanged(mods, cache, e) ==
    /\ e[2] = 0 \/ ItemAt(mods, e).kind # "file"
    /\ SnapshotId(mods, e) # 0
    /\ IF e[2] = 0
       THEN /\ Has(cache.modules, SnapshotId(mods, e))
            /\ compare_module(mods[e[1]], cache.modules[SnapshotId(mods, e)]) = <<>>
       ELSE /\ Has(cache[TableOf(ItemAt(mods, e).kind)], SnapshotId(mods, e))
            /\ Compare(ItemAt(mods, e),
                       cache[TableOf(ItemAt(mods, e).kind)][SnapshotId(mods, e)]) = <<>>

C2_UnchangedNeverWritten ==
    ~dry_run =>
        \A e \in EntSet(modules) :
            ExistingUnchanged(modules, canvas_data_cache, e) =>
                \A i \in WritesOf(run) : calls[i].ent # e

-----------------------------------------------------------------------------
(* C3: a module, page, assignment or discussion that declares no content   *)
(* identity never receives an update call in Phase 1 and never more than   *)
(* one create call, and once Phase 1 of a non-dry build has gone past it,  *)
(* exactly one create call has been issued for it, whatever the snapshot   *)
(* cache holds.                                                            *)

C3_NewAlwaysCreates ==
    \A e \in ContentEnts(modules) :
        DeclaredId(modules, e) = 0 =>
            /\ Phase1Calls(e, UpdateOps) = {}
            /\ Cardinality(Phase1Calls(e, CreateOps)) <= 1
            /\ Phase1Done(e) => Cardinality(Phase1Calls(e, CreateOps)) = 1

\* Phase 1 has created a new entity while the cache held a snapshot of another
C3_Witness ==
    \E e \in ContentEnts(modules) :
        /\ DeclaredId(modules, e) = 0
        /\ Phase1Done(e)
        /\ \E i \in Phase1Calls(e, CreateOps) : calls[i].ok
        /\ \E t \in DOMAIN canvas_data_cache : canvas_data_cache[t] # EmptyMap

-----------------------------------------------------------------------------
(* C4: a module, page, assignment or discussion that declares a content    *)
(* identity for which canvas_data_cache holds no entry is never created    *)
(* and never skipped by Phase 1 of a non-dry build: once Phase 1 has gone  *)
(* past it, exactly one update call has been issued for it.                *)

C4_NoSnapshotUpdates ==
    \A e \in ContentEnts(modules) :
        (DeclaredId(modules, e) # 0 /\ ~HasSnapshot(modules, canvas_data_cache, e)) =>
            /\ Phase1Calls(e, CreateOps) = {}
            /\ Phase1Done(e) => Cardinality(Phase1Calls(e, UpdateOps)) = 1

\* The fetch of a declared identity failed and Phase 1 has updated the entity
C4_Witness ==
    \E e \in ContentEnts(modules) :
        /\ DeclaredId(modules, e) # 0
        /\ ~HasSnapshot(modules, canvas_data_cache, e)
        /\ Phase1Done(e)
        /\ \E i \in FailedReads(run) : calls[i].ent = e
        /\ \E i \in Phase1Calls(e, UpdateOps) : calls[i].ok

-----------------------------------------------------------------------------
(* C5: a dry run issues no create or update call of any kind, and by the   *)
(* time the preview is produced the reads of Phase 0 have been issued: the *)
(* file listing when the tree holds a file item or a [[File:...]]          *)
(* placeholder, and one read for every declared module, page, assignment   *)
(* and discussion identity.                                                *)

ReadIssued(op, id) ==
    \E i \in CallsOf(run) : calls[i].op = op /\ calls[i].id = id

FileNeeded(mods) ==
    \E m \in 1..Len(mods) : \E k \in 1..Len(mods[m].items) :
        \/ mods[m].items[k].kind = "file"
        \/ \E tok \in {BodyOf(mods[m].items[k])[n] :
                          n \in 1..Len(BodyOf(mods[m].items[k]))} :
              tok.t = "ref" /\ tok.kind = "File"

Phase0ReadsIssued(mods) ==
    /\ FileNeeded(mods) => ReadIssued("get_files", 0)
    /\ \A m \in 1..Len(mods) :
          /\ mods[m].canvas_module_id # 0 =>
                ReadIssued("get_module", mods[m].canvas_module_id)
          /\ \A k \in 1..Len(mods[m].items) :
                LET item == mods[m].items[k] IN
                /\ (item.kind = "page" /\ item.canvas_page_id # 0) =>
                      ReadIssued("get_page", item.canvas_page_id)
                /\ (item.kind = "assignment" /\ item.canvas_assignment_id # 0) =>
                      ReadIssued("get_assignment", item.canvas_assignment_id)
                /\ (item.kind = "discussion" /\ item.canvas_discussion_id # 0) =>
                      ReadIssued("get_discussion", item.canvas_discussion_id)

C5_DryRunWritesNothing ==
    dry_run =>
        /\ WritesOf(run) = {}
        /\ pc \in {"preview", "done"} => Phase0ReadsIssued(modules)
        /\ pc = "done" => DOMAIN preview = EntSet(modules)

\* A dry run has read the file listing and a snapshot, and its preview
\* announces a create and an update
C5_Witness ==
    /\ dry_run
    /\ pc = "done"
    /\ ReadIssued("get_files", 0)
    /\ \E i \in CallsOf(run) : calls[i].handler = "_fetch_existing_data" /\ calls[i].ok
    /\ \E e \in DOMAIN preview : preview[e] = "create"
    /\ \E e \in DOMAIN preview : preview[e] = "update"

-----------------------------------------------------------------------------
(* C6: when a create or update call for one entity fails during a non-dry  *)
(* build, the entities later in the tree are still handled: by the end of  *)
(* the run every later new module, page, assignment and discussion has had *)
(* its Phase-1 create call, and every later text header and external link  *)
(* of another module has had its Phase-3 module-item call.                 *)

Ended == pc \in {"done", "aborted"}

PlacementCalls(e) ==
    {i \in CallsOf(run) : calls[i].ent = e /\ calls[i].handler = "_add_to_module"}

C6_WriteFailureIsolated ==
    (~dry_run /\ Ended) =>
        \A i \in FailedWrites(run) :
            \A e \in EntSet(modules) :
                Place(modules, e) > Place(modules, calls[i].ent) =>
                    /\ (e \in ContentEnts(modules) /\ DeclaredId(modules, e) = 0) =>
                          Phase1Calls(e, CreateOps) # {}
                    /\ (/\ e[2] > 0
                        /\ ItemAt(modules, e).kind \in {"header", "link"}
                        /\ e[1] # calls[i].ent[1]) =>
                          PlacementCalls(e) # {}

-----------------------------------------------------------------------------
(* C7: no read failure of Phase 0 ends a non-dry build: a build that ended *)
(* before completing all phases had a write fail; and every read of        *)
(* _fetch_existing_data that succeeded left its snapshot in the cache.     *)

C7_FetchFailureIsolated ==
    ~dry_run =>
        /\ pc = "aborted" => FailedWrites(run) # {}
        /\ pc \notin {"files", "fetch", "aborted"} =>
              \A i \in CallsOf(run) :
                  (calls[i].handler = "_fetch_existing_data" /\ calls[i].ok) =>
                      Has(canvas_data_cache[ReadTable(calls[i].op)], calls[i].id)

-----------------------------------------------------------------------------
(* C8: in a non-dry build the write calls come phase by phase: no Phase-1  *)
(* call follows a Phase-2 update, no Phase-1 or Phase-2 call follows a     *)
(* Phase-3 module-item call; and when the first Phase-2 or Phase-3 call is *)
(* issued, Phase 1 has handled every module, page, assignment and          *)
(* discussion of the tree (each has its remote identity in canvas_id).     *)

PhaseOf(handler) ==
    CASE handler \in Phase1Handlers -> 1
      [] handler = "_resolve_links" -> 2
      [] handler = "_add_to_module" -> 3
      [] OTHER -> 0

CanvasIdOf(mods, e) ==
    IF e[2] = 0 THEN mods[e[1]].canvas_id ELSE ItemAt(mods, e).canvas_id

C8_PhaseBarrier ==
    ~dry_run =>
        /\ \A i, j \in WritesOf(run) :
              i < j => PhaseOf(calls[i].handler) <= PhaseOf(calls[j].handler)
        /\ (\E i \in WritesOf(run) : PhaseOf(calls[i].handler) >= 2) =>
              \A e \in ContentEnts(modules) : CanvasIdOf(modules, e) # 0

\* An item of the first module refers to an item of the second; both were
\* created in Phase 1, the first was then updated in Phase 2 and placed
C8_Witness ==
    /\ ~dry_run
    /\ \E i, j, k, l \in WritesOf(run) :
          /\ i < j /\ j < k /\ k < l
          /\ calls[i].op \in CreateOps /\ calls[i].handler = "_create_or_update_item"
          /\ calls[i].ent[1] = 1
          /\ calls[j].op \in CreateOps /\ calls[j].handler = "_create_or_update_item"
          /\ calls[j].ent[1] = 2
          /\ calls[k].handler = "_resolve_links" /\ calls[k].ent = calls[i].ent
          /\ calls[l].handler = "_add_to_module"
          /\ \E n \in 1..Len(BodyOf(ItemAt(modules, calls[i].ent))) :
                LET tok == BodyOf(ItemAt(modules, calls[i].ent))[n] IN
                tok.t = "ref" /\ tok.title = ItemAt(modules, calls[j].ent).title

-----------------------------------------------------------------------------
(* C9: two new items A and B of one tree, with different titles, the body  *)
(* of each holding a placeholder that names the other, in either order of  *)
(* declaration: every Phase-2 update sent for A carries a body with a link *)
(* to the remote URL of B and no placeholder left as plain text, and the   *)
(* same for B; resolve reports no unresolved placeholder for either; and   *)
(* once Phase 2 is over both updates have been sent.                       *)

Names(tok, item) ==
    tok.t = "ref" /\ tok.kind = LinkKindOf(item.kind) /\ tok.title = item.title

RefersTo(a, b) == \E n \in 1..Len(BodyOf(a)) : Names(BodyOf(a)[n], b)

MutualPairs(mods) ==
    {p \in ItemSet(mods) \X ItemSet(mods) :
        /\ p[1] # p[2]
        /\ ItemAt(mods, p[1]).kind \in ContentKinds
        /\ ItemAt(mods, p[2]).kind \in ContentKinds
        /\ ContentIdOf(ItemAt(mods, p[1])) = 0
        /\ ContentIdOf(ItemAt(mods, p[2])) = 0
        /\ Lower(ItemAt(mods, p[1]).title) # Lower(ItemAt(mods, p[2]).title)
        /\ RefersTo(ItemAt(mods, p[1]), ItemAt(mods, p[2]))
        /\ RefersTo(ItemAt(mods, p[2]), ItemAt(mods, p[1]))}

ResolveCalls(e) ==
    {i \in CallsOf(run) : calls[i].ent = e /\ calls[i].handler = "_resolve_links"}

\* The body sent holds a link to the item's URL where the placeholder was
LinksTo(sent, body, item) ==
    /\ Len(sent) = Len(body)
    /\ \A n \in 1..Len(body) :
          /\ IsPlaceholder(body[n]) => sent[n].t = "a"
          /\ Names(body[n], item) =>
                sent[n].url = item.canvas_url /\ item.canvas_url # NoUrl

C9_MutualReferencesResolve ==
    ~dry_run =>
        \A p \in MutualPairs(modules) :
            LET a == ItemAt(modules, p[1])
                b == ItemAt(modules, p[2])
            IN  /\ \A i \in ResolveCalls(p[1]) : LinksTo(calls[i].data.body, BodyOf(a), b)
                /\ pc \in {"phase3", "done"} =>
                      /\ ResolveCalls(p[1]) # {}
                      /\ Unresolved(BodyOf(a), resolver, modules) = {}

\* A page declared before an assignment, each naming the other, both updated
\* in Phase 2
C9_Witness ==
    /\ pc = "done"
    /\ \E p \in MutualPairs(modules) :
          /\ Place(modules, p[1]) < Place(modules, p[2])
          /\ ItemAt(modules, p[1]).kind = "page"
          /\ ItemAt(modules, p[2]).kind = "assignment"
          /\ \E i \in ResolveCalls(p[1]) : calls[i].ok
          /\ \E i \in ResolveCalls(p[2]) : calls[i].ok

-----------------------------------------------------------------------------
(* C10: the module-item calls of Phase 3 follow the declared order (module *)
(* by module, and within a module item by item), and the call for the item *)
(* at 1-based index k of its module carries position = k.                  *)

C10_PlacementInDeclaredOrder ==
    /\ \A i \in CallsOf(run) :
          calls[i].handler = "_add_to_module" =>
              /\ calls[i].op \in {"create_module_item", "update_module_item"}
              /\ "position" \in calls[i].data.fields
              /\ calls[i].data.position = calls[i].ent[2]
    /\ \A i, j \in CallsOf(run) :
          (/\ i < j
           /\ calls[i].handler = "_add_to_module"
           /\ calls[j].handler = "_add_to_module") =>
              \/ calls[i].ent[1] < calls[j].ent[1]
              \/ calls[i].ent[1] = calls[j].ent[1] /\ calls[i].ent[2] < calls[j].ent[2]

\* Two new items of one new module have been placed, at positions 1 and 2
C10_Witness ==
    /\ pc = "done"
    /\ \E i, j \in CallsOf(run) :
          /\ i < j
          /\ calls[i].op = "create_module_item" /\ calls[i].ok
          /\ calls[j].op = "create_module_item" /\ calls[j].ok
          /\ calls[i].ent = <<1, 1>> /\ calls[i].data.position = 1
          /\ calls[j].ent = <<1, 2>> /\ calls[j].data.position = 2
          /\ modules[1].canvas_module_id = 0

-----------------------------------------------------------------------------
(* C11: a File item whose filename the Phase-1 lookup does not find in the *)
(* file cache receives no module-item call in Phase 3, also when it was    *)
(* parsed with a canvas_file_id or canvas_module_item_id marker.           *)

\* Phase 1 has looked the file up and found nothing
LookupFailed(e) ==
    /\ e[2] > 0
    /\ ItemAt(modules, e).kind = "file"
    /\ Phase1Done(e)
    /\ get_file_by_name(ItemAt(modules, e).filename, files_cache) = NoFile

-----------------------------------------------------------------------------
(* C12: in a non-dry build no item ever receives more than one Phase-2     *)
(* update call, an item that receives one has a body (page content,        *)
(* assignment description or discussion message) holding at least one      *)
(* placeholder, and once Phase 2 is over every item whose body holds a     *)
(* placeholder has received exactly one.                                   *)

HoldsPlaceholder(item) ==
    /\ item.kind \in {"page", "assignment", "discussion"}
    /\ \E n \in 1..Len(BodyOf(item)) :
          /\ BodyOf(item)[n].t = "ref"
          /\ BodyOf(item)[n].kind \in {"Page", "Assignment", "Discussion", "File"}

Phase2Over == ~dry_run /\ pc \in {"phase3", "done"}

C12_Phase2OnlyReferencingItems ==
    ~dry_run =>
        /\ \A i \in CallsOf(run) :
              calls[i].handler = "_resolve_links" =>
                  /\ calls[i].op \in {"update_page", "update_assignment", "update_discussion"}
                  /\ calls[i].ent \in ItemSet(modules)
        /\ \A e \in ItemSet(modules) :
              /\ Cardinality(ResolveCalls(e)) <= 1
              /\ ResolveCalls(e) # {} => HoldsPlaceholder(ItemAt(modules, e))
              /\ (Phase2Over /\ HoldsPlaceholder(ItemAt(modules, e))) =>
                    Cardinality(ResolveCalls(e)) = 1

\* Phase 2 has updated the one item that holds a placeholder and left alone
\* the other, which has a body without any
C12_Witness ==
    /\ Phase2Over
    /\ \E a, b \in ItemSet(modules) :
          /\ HoldsPlaceholder(ItemAt(modules, a))
          /\ \E i \in ResolveCalls(a) : calls[i].ok
          /\ ItemAt(modules, b).kind \in ContentKinds
          /\ ~HoldsPlaceholder(ItemAt(modules, b))
          /\ ResolveCalls(b) = {}

-----------------------------------------------------------------------------
(* C13: a placeholder whose target is not registered, or is registered     *)
(* without a URL, stands unchanged at the same place in the output of      *)
(* resolve: in every body a Phase-2 update sends, each placeholder of the  *)
(* item's body that was not turned into a link is still that placeholder.  *)

C13_UnresolvedLeftVerbatim ==
    \A e \in ItemSet(modules) :
        \A i \in ResolveCalls(e) :
            LET body == BodyOf(ItemAt(modules, e))
                sent == calls[i].data.body
            IN  /\ Len(sent) = Len(body)
                /\ \A n \in 1..Len(body) :
                      (IsPlaceholder(body[n]) /\ sent[n].t # "a") => sent[n] = body[n]

-----------------------------------------------------------------------------
(* C14: no update call for an assignment, update_assignment_full of        *)
(* Phase 1 or update_assignment of Phase 2, carries a submission_types     *)
(* field, whatever the local submission types are and whatever fields the  *)
(* comparison reported; of all calls only create_assignment carries one.   *)

C14_SubmissionTypesNeverUpdated ==
    \A i \in 1..Len(calls) :
        /\ calls[i].op \in {"update_assignment_full", "update_assignment"} =>
              "submission_types" \notin calls[i].data.fields
        /\ "submission_types" \in calls[i].data.fields => calls[i].op = "create_assignment"
        /\ calls[i].op = "create_assignment" => "submission_types" \in calls[i].data.fields

\* An existing assignment whose comparison reported submission_types has
\* been updated in Phase 1 and again in Phase 2
C14_Witness ==
    \E e \in ItemSet(modules) :
        LET item == ItemAt(modules, e) IN
        /\ item.kind = "assignment"
        /\ item.canvas_assignment_id # 0
        /\ item.submission_types # <<>>
        /\ Has(canvas_data_cache.assignments, item.canvas_assignment_id)
        /\ \E n \in 1..Len(compare_assignment(item,
                        canvas_data_cache.assignments[item.canvas_assignment_id])) :
              compare_assignment(item,
                  canvas_data_cache.assignments[item.canvas_assignment_id])[n]
                  = "submission_types"
        /\ \E i \in Phase1Calls(e, {"update_assignment_full"}) : calls[i].ok
        /\ \E i \in ResolveCalls(e) : calls[i].op = "update_assignment" /\ calls[i].ok

-----------------------------------------------------------------------------
(* Builds of one item with its fields varied                               *)
(*                                                                         *)
(* One module "Week 1" holding one page, assignment or discussion "Intro". *)
(* The fields of the item are drawn from small sets. When the item is an   *)
(* existing one (identity 1, as are its module and its placement), the     *)
(* remote course holds for it the record its create call would have left,  *)
(* with the due date either as the call transmitted it or as the service   *)
(* returns it, and with at most one field made different.                  *)

PointValues == {0, 10}

\* 0 is no due date, 1 an instant
DueValues == {0, 1}

GradeDisplays == {"complete_incomplete", "points"}

SubmissionLists == {<<"online_text_entry">>, <<"online_upload">>}

FieldItems(id) ==
    {Page("Intro", <<Text("see")>>, id, id)}
    \cup {[Assignment("Intro", <<Text("see")>>, id, id) EXCEPT
              !.points = p, !.due_at = d, !.grade_display = g, !.submission_types = st] :
            p \in PointValues, d \in DueValues, g \in GradeDisplays, st \in SubmissionLists}
    \cup {[Discussion("Intro", <<Text("see")>>, id, id) EXCEPT
              !.points = x[1], !.due_at = x[2], !.grade_display = x[3],
              !.graded = x[4], !.require_initial_post = x[5], !.threaded = x[6]] :
            x \in PointValues \X DueValues \X GradeDisplays \X BOOLEAN \X BOOLEAN \X BOOLEAN}

EmptyCourse ==
    [modules |-> EmptyMap, pages |-> EmptyMap, assignments |-> EmptyMap,
     discussions |-> EmptyMap, module_items |-> EmptyMap, files |-> <<>>,
     next_id |-> MaxModules + MaxItems + 1]

\* The record the service holds after the create call for the item
AsServed(item, id) == Written(EmptyCourse, ItemRequest(item, "create"), id)

\* The same with the due date in the form the create call transmitted
AsSent(item, id) ==
    LET req == ItemRequest(item, "create")
        rec == AsServed(item, id)
    IN  CASE item.kind = "assignment" -> [rec EXCEPT !.due_at = req.data.due_at]
          [] item.kind = "discussion" /\ rec.assignment.present ->
                [rec EXCEPT !.assignment.due_at = req.data.due_at]
          [] OTHER -> rec

Diffs == {"none", "title", "body", "points", "due", "no_due", "grading_type",
          "submission_types", "graded_status", "require_initial_post", "discussion_type"}

\* A due date of the form of d at another instant
OtherDue(d) == [inst |-> 2, form |-> IF d.form = "none" THEN "utc" ELSE d.form]

\* The record with one field made different; a field the record does not
\* have leaves it as it is
Differ(rec, kind, diff) ==
    CASE kind = "page" ->
            CASE diff = "title" -> [rec EXCEPT !.title = "Old"]
              [] diff = "body" -> [rec EXCEPT !.body = <<Text("old")>>]
              [] OTHER -> rec
      [] kind = "assignment" ->
            CASE diff = "title" -> [rec EXCEPT !.name = "Old"]
              [] diff = "body" -> [rec EXCEPT !.description = <<Text("old")>>]
              [] diff = "points" -> [rec EXCEPT !.points_possible = 5]
              [] diff = "due" -> [rec EXCEPT !.due_at = OtherDue(@)]
              [] diff = "no_due" -> [rec EXCEPT !.due_at = NoDue]
              [] diff = "grading_type" -> [rec EXCEPT !.grading_type = "letter_grade"]
              [] diff = "submission_types" -> [rec EXCEPT !.submission_types = {"on_paper"}]
              [] OTHER -> rec
      [] kind = "discussion" ->
            CASE diff = "title" -> [rec EXCEPT !.title = "Old"]
              [] diff = "body" -> [rec EXCEPT !.message = <<Text("old")>>]
              [] diff = "require_initial_post" -> [rec EXCEPT !.require_initial_post = ~@]
              [] diff = "discussion_type" ->
                    [rec EXCEPT !.discussion_type =
                        IF @ = "threaded" THEN "side_comment" ELSE "threaded"]
              [] diff = "graded_status" ->
                    [rec EXCEPT !.assignment =
                        IF @.present THEN NoAssignment
                        ELSE [present |-> TRUE, points_possible |-> 0, due_at |-> NoDue,
                              grading_type |-> "pass_fail"]]
              [] diff = "points" /\ rec.assignment.present ->
                    [rec EXCEPT !.assignment.points_possible = 5]
              [] diff = "due" /\ rec.assignment.present ->
                    [rec EXCEPT !.assignment.due_at = OtherDue(@)]
              [] diff = "no_due" /\ rec.assignment.present ->
                    [rec EXCEPT !.assignment.due_at = NoDue]
              [] diff = "grading_type" /\ rec.assignment.present ->
                    [rec EXCEPT !.assignment.grading_type = "letter_grade"]
              [] OTHER -> rec

\* The course of an existing item, its record replaced by rec
FieldCourse(mods, item, rec) ==
    [Course(mods, {}, <<>>) EXCEPT ![TableOf(item.kind)] = Put(EmptyMap, 1, rec)]

\* The same course, its module 1 under another name
Renamed(course) == [course EXCEPT !.modules[1].name = "Old"]

InitFields ==
    \E id \in {0, 1} :
    \E item \in FieldItems(id) :
    \E served \in BOOLEAN :
    \E diff \in Diffs :
    \E renamed \in BOOLEAN :
    \E dry \in BOOLEAN :
        LET mods == <<Module("Week 1", <<item>>, id)>>
            rec == Differ(IF served THEN AsServed(item, 1) ELSE AsSent(item, 1),
                          item.kind, diff)
        IN  /\ id = 0 => served /\ diff = "none" /\ ~renamed
            /\ Start(mods,
                     IF id = 0 THEN EmptyCourse
                     ELSE IF renamed THEN Renamed(FieldCourse(mods, item, rec))
                     ELSE FieldCourse(mods, item, rec),
                     dry, 1, <<>>)

SpecFields == InitFields /\ [][Next]_vars

-----------------------------------------------------------------------------
(* C15: the payload of every create_discussion and update_discussion_full  *)
(* call built for a discussion with graded = false carries no points, no   *)
(* due date and no grading type, whatever points, due_at and grade_display *)
(* hold locally.                                                           *)

GradingFields == {"points_possible", "due_at", "grading_type"}

C15_UngradedSendsNoGrading ==
    \A i \in 1..Len(calls) :
        (/\ calls[i].op \in {"create_discussion", "update_discussion_full"}
         /\ ~ItemAt(modules, calls[i].ent).graded) =>
            calls[i].data.fields \cap GradingFields = {}

\* An ungraded discussion with points, a due date and a grade display has
\* been created or updated
C15_Witness ==
    \E i \in 1..Len(calls) :
        /\ calls[i].op \in {"create_discussion", "update_discussion_full"}
        /\ calls[i].ok
        /\ LET item == ItemAt(modules, calls[i].ent) IN
           /\ ~item.graded
           /\ item.points = 10
           /\ item.due_at = 1
           /\ item.grade_display = "points"

-----------------------------------------------------------------------------
(* C16: in every step of a build, a remote identity that has a value keeps *)
(* it, whether the document declared it or the run assigned it, and one    *)
(* that gets a value gets it from a create call for the entity that has    *)
(* returned successfully (for the file identity of a File item, from a     *)
(* successful lookup). The identities are the content identity (module     *)
(* canvas_id, page/assignment/discussion canvas_id, file canvas_file_id;   *)
(* the declared one until canvas_id is set) and the placement identity     *)
(* canvas_module_item_id.                                                  *)

ContentIdentity(mods, e) ==
    IF e[2] = 0
    THEN IF mods[e[1]].canvas_id # 0 THEN mods[e[1]].canvas_id
         ELSE mods[e[1]].canvas_module_id
    ELSE LET item == ItemAt(mods, e) IN
         CASE item.kind = "file" -> item.canvas_file_id
           [] item.kind \in ContentKinds ->
                IF item.canvas_id # 0 THEN item.canvas_id ELSE ContentIdOf(item)
           [] OTHER -> 0

PlacementIdentity(mods, e) ==
    IF e[2] = 0 THEN 0 ELSE ItemAt(mods, e).canvas_module_item_id

\* The log holds a successful create call among ops for the entity that
\* returned the identity
CreatedAs(log, e, ops, id) ==
    \E i \in 1..Len(log) :
        log[i].ent = e /\ log[i].op \in ops /\ log[i].ok /\ log[i].result = id

IdentitiesKept ==
    \A e \in EntSet(modules) :
        /\ ContentIdentity(modules, e) # 0 =>
              ContentIdentity(modules', e) = ContentIdentity(modules, e)
        /\ (ContentIdentity(modules, e) = 0 /\ ContentIdentity(modules', e) # 0) =>
              IF e[2] > 0 /\ ItemAt(modules, e).kind = "file"
              THEN get_file_by_name(ItemAt(modules, e).filename, files_cache).id
                       = ContentIdentity(modules', e)
              ELSE CreatedAs(calls', e, CreateOps \ {"create_module_item"},
                             ContentIdentity(modules', e))
        /\ PlacementIdentity(modules, e) # 0 =>
              PlacementIdentity(modules', e) = PlacementIdentity(modules, e)
        /\ (PlacementIdentity(modules, e) = 0 /\ PlacementIdentity(modules', e) # 0) =>
              CreatedAs(calls', e, {"create_module_item"}, PlacementIdentity(modules', e))

C16_IdentitiesWriteOnce == [][IdentitiesKept]_vars

-----------------------------------------------------------------------------
(* C17: when Phase 1 or the preview starts, Phase 0 has issued a read for  *)
(* every declared content identity (module, page, assignment, discussion)  *)
(* and for every declared placement identity canvas_module_item_id of an   *)
(* item of any kind, whether or not its module declares canvas_module_id,  *)
(* and canvas_data_cache holds a snapshot under the identity of every one  *)
(* of these reads that succeeded.                                          *)

\* The reads Phase 0 owes an entity: the operation and the identity
DeclaredReads(mods, e) ==
    IF e[2] = 0
    THEN IF mods[e[1]].canvas_module_id # 0
         THEN {<<"get_module", mods[e[1]].canvas_module_id>>} ELSE {}
    ELSE LET item == ItemAt(mods, e) IN
         (IF item.kind = "page" /\ item.canvas_page_id # 0
          THEN {<<"get_page", item.canvas_page_id>>} ELSE {})
         \cup (IF item.kind = "assignment" /\ item.canvas_assignment_id # 0
               THEN {<<"get_assignment", item.canvas_assignment_id>>} ELSE {})
         \cup (IF item.kind = "discussion" /\ item.canvas_discussion_id # 0
               THEN {<<"get_discussion", item.canvas_discussion_id>>} ELSE {})
         \cup (IF item.canvas_module_item_id # 0
               THEN {<<"get_module_item", item.canvas_module_item_id>>} ELSE {})

\* The read was issued in Phase 0, and a snapshot is cached if it succeeded
Prefetched(e, rd) ==
    \E i \in CallsOf(run) :
        /\ calls[i].handler = "_fetch_existing_data"
        /\ calls[i].ent = e
        /\ calls[i].op = rd[1]
        /\ calls[i].id = rd[2]
        /\ calls[i].ok => rd[2] \in DOMAIN canvas_data_cache[ReadTable(rd[1])]

C17_PrefetchCoversDeclared ==
    pc \in {"preview", "phase1"} =>
        \A e \in EntSet(modules) :
            \A rd \in DeclaredReads(modules, e) : Prefetched(e, rd)

-----------------------------------------------------------------------------
(* C18: for a discussion compared with its prefetched snapshot,            *)
(* compare_discussion reports a change that includes 'graded_status'       *)
(* whenever the local graded flag and the presence of the snapshot's       *)
(* assignment sub-record disagree (graded against none, or ungraded        *)
(* against one), whatever the other fields are; and when the local         *)
(* discussion is not graded, 'points', 'due_date' and 'grading_type' are   *)
(* never among the changed fields.                                         *)

\* The discussions of the tree whose snapshot Phase 0 has cached
SnapshotDiscussions ==
    {e \in ItemSet(modules) :
        /\ ItemAt(modules, e).kind = "discussion"
        /\ Has(canvas_data_cache.discussions, ItemAt(modules, e).canvas_discussion_id)}

DiscussionSnapshot(e) ==
    canvas_data_cache.discussions[ItemAt(modules, e).canvas_discussion_id]

DiscussionChanges(e) ==
    LET changed == compare_discussion(ItemAt(modules, e), DiscussionSnapshot(e))
    IN  {changed[i] : i \in 1..Len(changed)}

C18_GradedTransitionIsChange ==
    \A e \in SnapshotDiscussions :
        /\ ItemAt(modules, e).graded # DiscussionSnapshot(e).assignment.present =>
              "graded_status" \in DiscussionChanges(e)
        /\ ~ItemAt(modules, e).graded =>
              DiscussionChanges(e) \cap {"points", "due_date", "grading_type"} = {}

\* Phase 1 has updated a graded discussion whose snapshot has no assignment
\* sub-record and the same title, message and options
C18_Witness ==
    \E e \in SnapshotDiscussions :
        /\ Phase1Calls(e, {"update_discussion_full"}) # {}
        /\ ItemAt(modules, e).graded
        /\ ~DiscussionSnapshot(e).assignment.present
        /\ DiscussionChanges(e) = {"graded_status"}

-----------------------------------------------------------------------------
(* C19: an existing assignment whose title, normalized description, point  *)
(* value, due timestamp (the same instant on both sides, or absent on      *)
(* both), grading mode (after mapping complete_incomplete to pass_fail)    *)
(* and submission-type set equal those of its prefetched snapshot is       *)
(* compared as unchanged (no changed field) and receives no update call    *)
(* in Phase 1; and a due timestamp present on exactly one side is reported *)
(* as 'due_date'.                                                          *)

\* The assignments of the tree whose snapshot Phase 0 has cached
SnapshotAssignments ==
    {e \in ItemSet(modules) :
        /\ ItemAt(modules, e).kind = "assignment"
        /\ Has(canvas_data_cache.assignments, ItemAt(modules, e).canvas_assignment_id)}

AssignmentSnapshot(e) ==
    canvas_data_cache.assignments[ItemAt(modules, e).canvas_assignment_id]

\* The local due date and the remote timestamp are absent both, or are the
\* same instant
SameInstant(due_at, remote_due) ==
    IF due_at = 0 THEN remote_due = NoDue
    ELSE remote_due # NoDue /\ remote_due.inst = due_at

SameAssignment(local, canvas_data) ==
    /\ local.title = canvas_data.name
    /\ normalize_html(local.description) = normalize_html(canvas_data.description)
    /\ local.points = canvas_data.points_possible
    /\ SameInstant(local.due_at, canvas_data.due_at)
    /\ to_canvas(local.grade_display) = canvas_data.grading_type
    /\ {local.submission_types[i] : i \in 1..Len(local.submission_types)}
          = canvas_data.submission_types

C19_UnchangedAssignmentDetected ==
    \A e \in SnapshotAssignments :
        LET local == ItemAt(modules, e)
            changed == compare_assignment(local, AssignmentSnapshot(e))
        IN  /\ SameAssignment(local, AssignmentSnapshot(e)) =>
                  /\ changed = <<>>
                  /\ Phase1Calls(e, {"update_assignment_full"}) = {}
            /\ (local.due_at = 0) # (AssignmentSnapshot(e).due_at = NoDue) =>
                  \E i \in 1..Len(changed) : changed[i] = "due_date"

-----------------------------------------------------------------------------
(* C20: for every page, assignment and discussion compared with its        *)
(* prefetched snapshot, if the snapshot holds exactly the field values the *)
(* create call for the local item sends (title, body, points, due          *)
(* timestamp as transmitted, grading type, submission types,               *)
(* require_initial_post, discussion type), the comparison reports no       *)
(* change; and if one of these fields of the snapshot differs (bodies      *)
(* compared after normalization), it reports a change.                     *)

\* The content items of the tree whose snapshot Phase 0 has cached
SnapshotItems ==
    {e \in ItemSet(modules) :
        /\ ItemAt(modules, e).kind \in ContentKinds
        /\ HasSnapshot(modules, canvas_data_cache, e)}

SnapshotOf(e) ==
    canvas_data_cache[TableOf(ItemAt(modules, e).kind)][DeclaredId(modules, e)]

\* A remote record with its body normalized as the comparison does
NormalBody(rec, kind) ==
    CASE kind = "page" -> [rec EXCEPT !.body = normalize_html(@)]
      [] kind = "assignment" -> [rec EXCEPT !.description = normalize_html(@)]
      [] kind = "discussion" -> [rec EXCEPT !.message = normalize_html(@)]

C20_DetectAgreesWithCreate ==
    \A e \in SnapshotItems :
        LET local == ItemAt(modules, e)
            sent == AsSent(local, DeclaredId(modules, e))
        IN  (Compare(local, SnapshotOf(e)) = <<>>)
                <=> (NormalBody(SnapshotOf(e), local.kind) = NormalBody(sent, local.kind))

-----------------------------------------------------------------------------
(* Trees whose names collide: one new module of two new items. An item is  *)
(* a page or an assignment titled "Intro" or "INTRO", or a file item for   *)
(* f.pdf or F.pdf; a body holds no placeholder, a placeholder for a page   *)
(* or an assignment under one of the two titles, or one for a file under   *)
(* one of the two file names. The course holds no file, one, or two whose  *)
(* names differ in letter case only, in either order.                      *)

NameTitles == {"Intro", "INTRO"}

FileNames == {"f.pdf", "F.pdf"}

NameBodies ==
    {<<Text("see")>>}
    \cup {<<Text("see"), Ref(k, t)>> : k \in {"Page", "Assignment"}, t \in NameTitles}
    \cup {<<Text("read"), Ref("File", n)>> : n \in FileNames}

NameItems ==
    {Page(t, b, 0, 0) : t \in NameTitles, b \in NameBodies}
    \cup {Assignment(t, b, 0, 0) : t \in NameTitles, b \in NameBodies}
    \cup {File("Notes", n, 0, 0) : n \in FileNames}

CaseFileLists ==
    {<<>>,
     <<CourseFile(1, "F.pdf")>>,
     <<CourseFile(1, "F.pdf"), CourseFile(2, "f.pdf")>>,
     <<CourseFile(1, "f.pdf"), CourseFile(2, "F.pdf")>>}

InitNames ==
    \E first \in NameItems :
    \E second \in NameItems :
    \E files \in CaseFileLists :
    \E dry \in BOOLEAN :
        LET mods == <<Module("Week 1", <<first, second>>, 0)>>
        IN  /\ ~(has_files(mods) \/ has_file_links(mods)) => files = <<>>
            /\ Start(mods, Course(mods, {}, files), dry, 1, <<>>)

SpecNames == InitNames /\ [][Next]_vars

-----------------------------------------------------------------------------
(* C21: in every Phase-2 update, a placeholder [[Kind:Title]] for a page,  *)
(* an assignment or a discussion is replaced by a link to the URL of the   *)
(* item of that kind registered last (the last in declared order) among    *)
(* those whose title equals Title case-insensitively, and is not replaced  *)
(* by a link when no item of that kind has such a title, whatever items of *)
(* other kinds are titled; and registering again an item that is the       *)
(* current entry of its title leaves the resolver as it is.                *)

\* The items of the placeholder's kind whose title matches it
Namesakes(mods, tok) ==
    {x \in ItemSet(mods) :
        /\ ItemAt(mods, x).kind \in ContentKinds
        /\ LinkKindOf(ItemAt(mods, x).kind) = tok.kind
        /\ Lower(ItemAt(mods, x).title) = Lower(tok.title)}

\* The one of them that Phase 1 registered last
LastOf(mods, S) == CHOOSE x \in S : \A y \in S : Place(mods, y) <= Place(mods, x)

ContentPlaceholder(tok) == tok.t = "ref" /\ tok.kind \in {"Page", "Assignment", "Discussion"}

LastWriteWins(sent, body) ==
    /\ Len(sent) = Len(body)
    /\ \A n \in 1..Len(body) :
          ContentPlaceholder(body[n]) =>
              IF Namesakes(modules, body[n]) = {}
              THEN sent[n].t # "a"
              ELSE sent[n] = Anchor(ItemAt(modules, LastOf(modules,
                                        Namesakes(modules, body[n]))).canvas_url,
                                    body[n].title, "")

C21_LastRegistrationWins ==
    /\ \A i \in CallsOf(run) :
          (calls[i].handler = "_resolve_links" /\ calls[i].ok) =>
              LastWriteWins(calls[i].data.body, BodyOf(ItemAt(modules, calls[i].ent)))
    /\ \A e \in ItemSet(modules) :
          LET item == ItemAt(modules, e) IN
          (/\ item.kind \in ContentKinds
           /\ Has(ResolverTable(resolver, LinkKindOf(item.kind)), Lower(item.title))
           /\ ResolverTable(resolver, LinkKindOf(item.kind))[Lower(item.title)] = e) =>
              Registered(resolver, item, e) = resolver

\* Two pages titled Intro and INTRO, in this order: the first
\* page names Page:Intro and its Phase-2 update links to the second page
C21_Witness ==
    /\ pc = "done"
    /\ ItemAt(modules, <<1, 1>>).kind = "page"
    /\ ItemAt(modules, <<1, 2>>).kind = "page"
    /\ ItemAt(modules, <<1, 1>>).title = "Intro"
    /\ ItemAt(modules, <<1, 2>>).title = "INTRO"
    /\ BodyOf(ItemAt(modules, <<1, 1>>)) = <<Text("see"), Ref("Page", "Intro")>>
    /\ ItemAt(modules, <<1, 1>>).canvas_url # ItemAt(modules, <<1, 2>>).canvas_url
    /\ \E i \in ResolveCalls(<<1, 1>>) :
          /\ calls[i].ok
          /\ calls[i].data.body[2].url = ItemAt(modules, <<1, 2>>).canvas_url

-----------------------------------------------------------------------------
(* C22: for every page, assignment and discussion, the Phase-1 call        *)
(* (create, update or none, and its payload) is the one decided from the   *)
(* item's content identity and content snapshot alone, that is, the one    *)
(* the same item without canvas_module_item_id would get; the Phase-2      *)
(* update likewise; and the Phase-3 call is update_module_item exactly     *)
(* when the item declares canvas_module_item_id and create_module_item     *)
(* otherwise, whatever Phase 1 did for the content.                        *)

\* The same item, and the same tree, without placement identities
Unplaced(item) == [item EXCEPT !.canvas_module_item_id = 0]

UnplacedTree(mods) ==
    [m \in 1..Len(mods) |->
        [mods[m] EXCEPT !.items = [k \in 1..Len(mods[m].items) |-> Unplaced(mods[m].items[k])]]]

\* The snapshots of content only
ContentSnapshots(cache) == [cache EXCEPT !.module_items = EmptyMap]

\* The Phase-1 request decided without any placement identity
ContentRequest(item, cache) ==
    ItemRequest(Unplaced(item), ItemDecision(Unplaced(item), ContentSnapshots(cache)))

SameRequest(c, req) == c.op = req.op /\ c.id = req.id /\ c.data = req.data

ContentItems(mods) == {e \in ItemSet(mods) : ItemAt(mods, e).kind \in ContentKinds}

C22_IdentitiesIndependent ==
    \A e \in ContentItems(modules) :
        LET item == ItemAt(modules, e)
            phase1 == {i \in CallsOf(run) :
                          calls[i].ent = e /\ calls[i].handler = "_create_or_update_item"}
            phase3 == {i \in CallsOf(run) :
                          calls[i].ent = e /\ calls[i].handler = "_add_to_module"}
        IN  /\ \A i \in phase1 :
                  SameRequest(calls[i], ContentRequest(item, canvas_data_cache))
            /\ (Phase1Done(e) /\ ContentRequest(item, canvas_data_cache) # NoRequest) =>
                  Cardinality(phase1) = 1
            /\ \A i \in ResolveCalls(e) :
                  SameRequest(calls[i],
                              ResolveRequest(Unplaced(item), resolver, UnplacedTree(modules)))
            /\ \A i \in phase3 :
                  calls[i].op = IF item.canvas_module_item_id # 0
                                THEN "update_module_item" ELSE "create_module_item"
            /\ pc = "done" /\ ~dry_run => Cardinality(phase3) = 1

\* A build has updated the content of an item in Phase 1 and created its
\* placement in Phase 3
C22_Witness ==
    /\ pc = "done"
    /\ \E e \in ContentItems(modules) :
          \E i, j \in CallsOf(run) :
              /\ calls[i].ent = e /\ calls[i].handler = "_create_or_update_item"
              /\ calls[j].ent = e /\ calls[j].handler = "_add_to_module"
              /\ calls[i].ok /\ calls[j].ok
              /\ calls[i].op \in UpdateOps
              /\ calls[j].op = "create_module_item"

-----------------------------------------------------------------------------
(* Pages written with markup. A text is one or two lines; a line is a      *)
(* block (plain, a heading of level 1 to 4, a bullet item written with -   *)
(* or with * ) holding one or two spans a blank apart; a span is a word,   *)
(* plain, bold, italic (written with * or with _) or a link. The local     *)
(* page holds the lightweight form of the text and the remote page the     *)
(* rich form, as it is or with its letters in upper case or its blanks     *)
(* doubled.                                                                *)

Styles == {"plain", "bold", "star", "underscore", "link"}

Blocks == {"plain", "h1", "h2", "h3", "h4", "dash", "bullet"}

Span(style, word) == [style |-> style, word |-> word]

Line(block, spans) == [block |-> block, spans |-> spans]

FirstLines ==
    {Line(b, <<Span(x, "Bold")>>) : b \in Blocks, x \in Styles}
    \cup {Line(b, <<Span(x, "Bold"), Span(y, "text")>>) :
              b \in Blocks, x \in Styles, y \in Styles}

SecondLines == {Line(b, <<Span("plain", "text")>>) : b \in Blocks}

Texts ==
    {<<l>> : l \in FirstLines} \cup {<<l, m>> : l \in FirstLines, m \in SecondLines}

\* The lightweight form
MarkdownSpan(sp) ==
    CASE sp.style = "plain" -> <<Text(sp.word)>>
      [] sp.style = "bold" ->
            <<Text("*"), Text("*"), Text(sp.word), Text("*"), Text("*")>>
      [] sp.style = "star" -> <<Text("*"), Text(sp.word), Text("*")>>
      [] sp.style = "underscore" -> <<Text("_"), Text(sp.word), Text("_")>>
      [] sp.style = "link" ->
            <<Text("["), Text(sp.word), Text("]"), Text("("), Text("u"), Text(")")>>

\* The rich form
HtmlSpan(sp) ==
    CASE sp.style = "plain" -> <<Text(sp.word)>>
      [] sp.style = "bold" -> <<Tag("strong"), Text(sp.word), Tag("/strong")>>
      [] sp.style \in {"star", "underscore"} -> <<Tag("em"), Text(sp.word), Tag("/em")>>
      [] sp.style = "link" -> <<Tag("a"), Text(sp.word), Tag("/a")>>

MarkdownSpans(spans) ==
    IF Len(spans) = 1 THEN MarkdownSpan(spans[1])
    ELSE MarkdownSpan(spans[1]) \o <<Text(" ")>> \o MarkdownSpan(spans[2])

HtmlSpans(spans) ==
    IF Len(spans) = 1 THEN HtmlSpan(spans[1])
    ELSE HtmlSpan(spans[1]) \o <<Text(" ")>> \o HtmlSpan(spans[2])

MarkdownLine(l) ==
    CASE l.block = "plain" -> MarkdownSpans(l.spans)
      [] l.block = "h1" -> <<Text("#"), Text(" ")>> \o MarkdownSpans(l.spans)
      [] l.block = "h2" -> <<Text("##"), Text(" ")>> \o MarkdownSpans(l.spans)
      [] l.block = "h3" -> <<Text("###"), Text(" ")>> \o MarkdownSpans(l.spans)
      [] l.block = "h4" -> <<Text("####"), Text(" ")>> \o MarkdownSpans(l.spans)
      [] l.block = "dash" -> <<Text("-"), Text(" ")>> \o MarkdownSpans(l.spans)
      [] l.block = "bullet" -> <<Text("*"), Text(" ")>> \o MarkdownSpans(l.spans)

HtmlLine(l) ==
    CASE l.block = "plain" -> HtmlSpans(l.spans)
      [] l.block = "h1" -> <<Tag("h1")>> \o HtmlSpans(l.spans) \o <<Tag("/h1")>>
      [] l.block = "h2" -> <<Tag("h2")>> \o HtmlSpans(l.spans) \o <<Tag("/h2")>>
      [] l.block = "h3" -> <<Tag("h3")>> \o HtmlSpans(l.spans) \o <<Tag("/h3")>>
      [] l.block = "h4" -> <<Tag("h4")>> \o HtmlSpans(l.spans) \o <<Tag("/h4")>>
      [] l.block \in {"dash", "bullet"} ->
            <<Tag("li")>> \o HtmlSpans(l.spans) \o <<Tag("/li")>>

Markdown(text) ==
    IF Len(text) = 1 THEN MarkdownLine(text[1])
    ELSE MarkdownLine(text[1]) \o <<Text("\n")>> \o MarkdownLine(text[2])

Html(text) ==
    IF Len(text) = 1 THEN HtmlLine(text[1])
    ELSE HtmlLine(text[1]) \o <<Text("\n")>> \o HtmlLine(text[2])

\* The same rich text written another way
Upper(sym) == CASE sym = "Bold" -> "BOLD" [] sym = "text" -> "TEXT" [] OTHER -> sym

Wide(sym) == IF sym = " " THEN "  " ELSE sym

Rewritten(html, how) ==
    [i \in 1..Len(html) |->
        IF html[i].t # "text" THEN html[i]
        ELSE CASE how = "upper" -> Text(Upper(html[i].title))
               [] how = "wide" -> Text(Wide(html[i].title))
               [] OTHER -> html[i]]

InitMarkup ==
    \E text \in Texts :
    \E how \in {"same", "upper", "wide"} :
    \E dry \in BOOLEAN :
        LET item == Page("Intro", Markdown(text), 1, 1)
            mods == <<Module("Week 1", <<item>>, 1)>>
            rec == [AsServed(item, 1) EXCEPT !.body = Rewritten(Html(text), how)]
        IN  Start(mods, FieldCourse(mods, item, rec), dry, 1, <<>>)

SpecMarkup == InitMarkup /\ [][Next]_vars

-----------------------------------------------------------------------------
(* C23: a page whose local body is the lightweight form of a text built    *)
(* from bold, italic, headings of level 1 to 4, bullet items and links,    *)
(* and whose snapshot holds the rich form of the same text (as it is, in   *)
(* upper case, or with doubled blanks), has equal normalized bodies on     *)
(* both sides: compare_page reports no change and Phase 1 issues no        *)
(* update for it.                                                          *)

SnapshotPages ==
    {e \in ItemSet(modules) :
        /\ ItemAt(modules, e).kind = "page"
        /\ Has(canvas_data_cache.pages, ItemAt(modules, e).canvas_page_id)}

PageSnapshot(e) == canvas_data_cache.pages[ItemAt(modules, e).canvas_page_id]

-----------------------------------------------------------------------------
(* C24: in Phase 1, a module, page, assignment or discussion that declares *)
(* a content identity and has a cached snapshot is never created; it       *)
(* receives no update call when the comparison reports no change, and at   *)
(* most one, exactly one once Phase 1 has gone past it, when it reports a  *)
(* change; the update carries every field the local record holds (name and *)
(* position; title and body; name, description, points, grading type and   *)
(* the due date if there is one; title, message, require_initial_post,     *)
(* discussion type and, if graded, points, grading type and due date),     *)
(* whichever fields the comparison names.                                  *)

\* What the comparison reports for an entity that has a snapshot
ChangedFields(e) ==
    IF e[2] = 0
    THEN compare_module(modules[e[1]], canvas_data_cache.modules[DeclaredId(modules, e)])
    ELSE Compare(ItemAt(modules, e),
                 canvas_data_cache[TableOf(ItemAt(modules, e).kind)][DeclaredId(modules, e)])

\* The call is the full-record update of the entity
FullUpdate(e, c) ==
    IF e[2] = 0
    THEN /\ c.op = "update_module"
         /\ c.id = modules[e[1]].canvas_module_id
         /\ c.data.fields = {"name", "position"}
         /\ c.data.name = modules[e[1]].title
         /\ c.data.position = e[1]
    ELSE LET item == ItemAt(modules, e) IN
         CASE item.kind = "page" ->
                /\ c.op = "update_page"
                /\ c.id = item.canvas_page_id
                /\ c.data.fields = {"title", "body"}
                /\ c.data.name = item.title
                /\ c.data.body = item.content
           [] item.kind = "assignment" ->
                /\ c.op = "update_assignment_full"
                /\ c.id = item.canvas_assignment_id
                /\ c.data.fields = {"name", "description", "points_possible", "grading_type"}
                                   \cup (IF item.due_at # 0 THEN {"due_at"} ELSE {})
                /\ c.data.name = item.title
                /\ c.data.body = item.description
                /\ c.data.points_possible = item.points
                /\ c.data.grading_type = to_canvas(item.grade_display)
                /\ item.due_at # 0 => c.data.due_at.inst = item.due_at
           [] item.kind = "discussion" ->
                /\ c.op = "update_discussion_full"
                /\ c.id = item.canvas_discussion_id
                /\ c.data.fields =
                      {"title", "message", "require_initial_post", "discussion_type"}
                      \cup (IF item.graded THEN {"points_possible", "grading_type"} ELSE {})
                      \cup (IF item.graded /\ item.due_at # 0 THEN {"due_at"} ELSE {})
                /\ c.data.name = item.title
                /\ c.data.body = item.message
                /\ c.data.require_initial_post = item.require_initial_post
                /\ c.data.discussion_type = discussion_type(item)
                /\ item.graded =>
                      /\ c.data.points_possible = item.points
                      /\ c.data.grading_type = to_canvas(item.grade_display)
                      /\ item.due_at # 0 => c.data.due_at.inst = item.due_at

C24_ChangeTriggersFullUpdate ==
    \A e \in ContentEnts(modules) :
        (DeclaredId(modules, e) # 0 /\ HasSnapshot(modules, canvas_data_cache, e)) =>
            /\ Phase1Calls(e, CreateOps) = {}
            /\ ChangedFields(e) = <<>> => Phase1Calls(e, UpdateOps) = {}
            /\ ChangedFields(e) # <<>> =>
                  /\ Cardinality(Phase1Calls(e, UpdateOps)) <= 1
                  /\ Phase1Done(e) => Cardinality(Phase1Calls(e, UpdateOps)) = 1
                  /\ \A i \in Phase1Calls(e, UpdateOps) : FullUpdate(e, calls[i])

\* Phase 1 has updated a renamed module in full and then a page of which
\* the comparison names the title only
C24_Witness ==
    /\ Phase1Done(<<1, 1>>)
    /\ ItemAt(modules, <<1, 1>>).kind = "page"
    /\ HasSnapshot(modules, canvas_data_cache, <<1, 0>>)
    /\ HasSnapshot(modules, canvas_data_cache, <<1, 1>>)
    /\ ChangedFields(<<1, 0>>) = <<"title">>
    /\ ChangedFields(<<1, 1>>) = <<"title">>
    /\ \E i \in Phase1Calls(<<1, 0>>, UpdateOps) : calls[i].ok
    /\ \E i \in Phase1Calls(<<1, 1>>, UpdateOps) : calls[i].ok

-----------------------------------------------------------------------------
(* C25: in a non-dry build, Phase 1 comes to an item only after the        *)
(* create-or-update decision of its module was taken (the module has its   *)
(* canvas_id, and its Phase-1 call, if any, comes earlier in the log), and *)
(* every Phase-3 module-item call for an item is addressed to the canvas_id *)
(* of the module that declares the item, which is not empty and is no      *)
(* other module's.                                                         *)

C25_ModuleBeforeItems ==
    ~dry_run =>
        /\ (pc = "phase1" /\ Ents(modules)[pos][2] > 0) =>
              modules[Ents(modules)[pos][1]].canvas_id # 0
        /\ \A i \in CallsOf(run) :
              /\ calls[i].handler = "_create_or_update_item" =>
                    /\ modules[calls[i].ent[1]].canvas_id # 0
                    /\ \A j \in CallsOf(run) :
                          (calls[j].handler = "build" /\ calls[j].ent = <<calls[i].ent[1], 0>>)
                              => j < i
              /\ calls[i].handler = "_add_to_module" =>
                    /\ calls[i].data.module_id # 0
                    /\ calls[i].data.module_id = modules[calls[i].ent[1]].canvas_id
                    /\ \A m \in 1..Len(modules) :
                          m # calls[i].ent[1] =>
                              modules[m].canvas_id # calls[i].data.module_id

\* A build of two modules, the first created and the second declared, has
\* written an item of each in Phase 1 and placed it in Phase 3
C25_Witness ==
    /\ pc = "done"
    /\ ~dry_run
    /\ Len(modules) = 2
    /\ modules[1].canvas_module_id = 0
    /\ modules[2].canvas_module_id # 0
    /\ \A m \in 1..2 :
          /\ \E i \in CallsOf(run) :
                /\ calls[i].handler = "_create_or_update_item"
                /\ calls[i].ent = <<m, 1>>
                /\ calls[i].ok
          /\ \E i \in CallsOf(run) :
                /\ calls[i].handler = "_add_to_module"
                /\ calls[i].ent = <<m, 1>>
                /\ calls[i].ok

-----------------------------------------------------------------------------
(* C26: once Phase 0 is over, no step of the preview or of Phase 1, 2 or 3 *)
(* changes files_cache or any table of canvas_data_cache; and in a run the *)
(* file listing is read at most once, each entity's declared identity is   *)
(* read at most once, and no read is issued outside Phase 0.               *)

Phase0Over == pc \notin {"files", "fetch"}

CachesReadOnly ==
    /\ Phase0Over =>
          /\ files_cache' = files_cache
          /\ canvas_data_cache' = canvas_data_cache
          /\ Len(calls') >= Len(calls)
          /\ \A i \in (Len(calls) + 1)..Len(calls') : calls'[i].op \notin ReadOps
    /\ Cardinality({i \in 1..Len(calls') :
                       calls'[i].run = run' /\ calls'[i].op = "get_files"}) <= 1
    /\ \A e \in EntSet(modules') :
          Cardinality({i \in 1..Len(calls') :
                          /\ calls'[i].run = run'
                          /\ calls'[i].op \in ReadOps
                          /\ calls'[i].ent = e}) <= 1

C26_CachesReadOnly == [][CachesReadOnly]_vars

\* A build that has cached the file listing and a snapshot has written in
\* Phase 1 and in Phase 3 and come to its end
C26_Witness ==
    /\ pc = "done"
    /\ ~dry_run
    /\ files_cache # <<>>
    /\ \E t \in DOMAIN canvas_data_cache : canvas_data_cache[t] # EmptyMap
    /\ \E i \in WritesOf(run) : calls[i].handler = "_create_or_update_item" /\ calls[i].ok
    /\ \E i \in WritesOf(run) : calls[i].handler = "_add_to_module" /\ calls[i].ok

-----------------------------------------------------------------------------
(* C27: once Phase 1 has gone past a File item, the item holds the         *)
(* identity of a cached file whose display_name equals its filename        *)
(* exactly if there is one, wherever it stands in the cache; otherwise of  *)
(* the first cached file whose display_name equals it but for letter       *)
(* case; otherwise none; and the lookup issues no remote call.             *)

FileItems(mods) == {e \in ItemSet(mods) : ItemAt(mods, e).kind = "file"}

ExactMatches(filename) ==
    {i \in 1..Len(files_cache) : files_cache[i].display_name = filename}

LooseMatches(filename) ==
    {i \in 1..Len(files_cache) : Lower(files_cache[i].display_name) = Lower(filename)}

C27_ExactMatchPreferred ==
    \A e \in FileItems(modules) :
        LET item == ItemAt(modules, e) IN
        /\ Phase1Calls(e, ReadOps \cup WriteOps) = {}
        /\ Phase1Done(e) =>
              IF ExactMatches(item.filename) # {}
              THEN \E i \in ExactMatches(item.filename) :
                      item.canvas_file_id = files_cache[i].id
              ELSE IF LooseMatches(item.filename) # {}
              THEN \E i \in LooseMatches(item.filename) :
                      /\ \A j \in LooseMatches(item.filename) : i <= j
                      /\ item.canvas_file_id = files_cache[i].id
              ELSE item.canvas_file_id = 0

\* Phase 1 has gone past a file item for f.pdf while the cache holds F.pdf
\* and, after it, f.pdf: the item has the identity of the second
C27_Witness ==
    \E e \in FileItems(modules) :
        /\ Phase1Done(e)
        /\ ItemAt(modules, e).filename = "f.pdf"
        /\ files_cache = <<CourseFile(1, "F.pdf"), CourseFile(2, "f.pdf")>>
        /\ ItemAt(modules, e).canvas_file_id = 2

-----------------------------------------------------------------------------
(* C28: when a non-dry build has come to its end, what _preview reports    *)
(* for each entity on the same tree and the same Phase-0 caches agrees     *)
(* with what the build did for it: 'create' exactly when a create call was *)
(* issued for the entity, 'update' exactly when an update call was,        *)
(* 'skip' exactly when no write call was issued for it in any phase, and,  *)
(* for a File item, 'found' exactly when the item was placed in its        *)
(* module.                                                                 *)

WritesFor(e) == {i \in WritesOf(run) : calls[i].ent = e}

PreviewAgrees(e) ==
    LET mode == PreviewDecision(modules, canvas_data_cache, files_cache, e) IN
    IF e[2] > 0 /\ ItemAt(modules, e).kind = "file"
    THEN (mode = "found") <=> (WritesFor(e) # {})
    ELSE /\ (mode = "create") <=> (\E i \in WritesFor(e) : calls[i].op \in CreateOps)
         /\ (mode = "update") <=> (\E i \in WritesFor(e) : calls[i].op \in UpdateOps)
         /\ (mode = "skip") <=> (WritesFor(e) = {})

C28_PreviewPredictsRun ==
    (pc = "done" /\ ~dry_run) => \A e \in EntSet(modules) : PreviewAgrees(e)

-----------------------------------------------------------------------------
(* An update converges                                                      *)

\* The full-record update calls of Phase 1
FullUpdateOps == {"update_page", "update_assignment_full", "update_discussion_full"}

\* The existing content items without placeholders that Phase 1 has updated
\* with success
UpdatedItems ==
    {e \in ItemSet(modules) :
        /\ ItemAt(modules, e).kind \in ContentKinds
        /\ DeclaredId(modules, e) # 0
        /\ ~has_internal_links(BodyOf(ItemAt(modules, e)))
        /\ Phase1Done(e)
        /\ \E i \in Phase1Calls(e, FullUpdateOps) : calls[i].ok}

\* The record the service holds for the item once the update is applied
RemoteOf(e) == server[TableOf(ItemAt(modules, e).kind)][DeclaredId(modules, e)]

\* C29: for every existing page, assignment and discussion without
\* placeholders that Phase 1 has updated, comparing the same local item
\* with the record the service holds after the update reports no change.
C29_UpdateConverges ==
    \A e \in UpdatedItems : Compare(ItemAt(modules, e), RemoteOf(e)) = <<>>

-----------------------------------------------------------------------------
(* File references and file items                                           *)

\* The places of a body that hold a [[File:n]] placeholder
FileRefs(body) == {n \in 1..Len(body) : IsPlaceholder(body[n]) /\ body[n].kind = "File"}

\* What a Phase-2 update sent in the place of a file placeholder agrees with
\* the lookup a File item of the same name goes through
AgreesWithLookup(tok, sent) ==
    LET file_data == get_file_by_name(tok.title, files_cache) IN
    IF file_data = NoFile THEN sent.t # "a"
    ELSE sent.t = "a" /\ sent.url = [kind |-> "files", tail |-> file_data.id]

\* C30: in every Phase-2 update, a [[File:n]] placeholder of the item's body
\* is sent as a link to the file that get_file_by_name finds for n in the
\* file cache, and as no link exactly when that lookup finds no file.
C30_FileReferencesAgree ==
    \A e \in ItemSet(modules) :
        \A i \in ResolveCalls(e) :
            LET body == BodyOf(ItemAt(modules, e)) IN
            \A n \in FileRefs(body) : AgreesWithLookup(body[n], calls[i].data.body[n])

====
